---- MODULE Spec2Model ----
(***************************************************************************)
(* The release orchestrator `Auto` (core/src/auto.ts) and the `released`   *)
(* plugin, as a state machine.  One behaviour is one process: construction,*)
(* loadConfig, then one command.  Every `await` of the source is a step    *)
(* whose outcome (value, rejection) is chosen by the collaborator.         *)
(*                                                                         *)
(* JavaScript values: a string is a TLA+ string and "" also stands for     *)
(* `undefined` (the source only tests such values for truthiness); an      *)
(* optional number is a natural and 0 also stands for `undefined`.         *)
(***************************************************************************)
EXTENDS Integers, Sequences, FiniteSets, TLC

VARIABLES
  env,          \* `const env = envCi()`: the CI environment, each key fixed at its first read
  repo,         \* facts held by the collaborators (git, hosting platform, plugins), each fixed at its first read
  hooks,        \* Auto.hooks: hook name -> names of the taps, in registration order
  config,       \* Auto.config is set (the plugin list it names), or "unset"
  git,          \* Auto.git is set
  release,      \* Auto.release is set
  versionBump,  \* Auto.versionBump
  cmd,          \* the command being run, "" before one is started
  opts,         \* the options the command was called with
  stack,        \* the frames of the running command, innermost first
  loc,          \* local variables of the frames
  rv,           \* the value the last returned frame returned
  calls,        \* every call made to a collaborator, in order
  result        \* "" while running, then "ok", "error:<what>" or "exit"

vars == <<env, repo, hooks, config, git, release, versionBump, cmd, opts, stack, loc, rv, calls, result>>

----------------------------------------------------------------------------
(* Bounds of the model *)

MaxPr == 2        \* PR numbers given by the `pr` option are 1..MaxPr
MaxEnvPr == 1     \* PR numbers found in the CI environment are 1..MaxEnvPr
MaxCommits == 2   \* a commit range holds at most MaxCommits commits

----------------------------------------------------------------------------
(* Strings and numbers *)

Digit(d) ==
  CASE d = 0 -> "0" [] d = 1 -> "1" [] d = 2 -> "2" [] d = 3 -> "3" [] d = 4 -> "4"
    [] d = 5 -> "5" [] d = 6 -> "6" [] d = 7 -> "7" [] d = 8 -> "8" [] d = 9 -> "9"

RECURSIVE ToStr(_)
\* String(n) for a natural n
ToStr(n) == IF n < 10 THEN Digit(n) ELSE ToStr(n \div 10) \o Digit(n % 10)

\* Number(s): the number a decimal string denotes; NaN and 0 (both falsy) are 0
ToNum(s) ==
  IF \E n \in 1..(MaxPr + MaxEnvPr + 1) : ToStr(n) = s
  THEN CHOOSE n \in 1..(MaxPr + MaxEnvPr + 1) : ToStr(n) = s
  ELSE 0

Truthy(s) == s # ""

----------------------------------------------------------------------------
(* The CI environment *)

Absent == "<absent>"   \* the key is not in env

FullSha == "abc1234def"     \* env.commit: a full commit sha
ShortSha == "abc1234"       \* what git.getSha(true) answers

Envs ==
  [ isPr   : {Absent, "false", "true"},
    branch : {Absent, "master", "next"},
    pr     : {Absent, ""} \cup {ToStr(n) : n \in 1..MaxEnvPr},
    build  : {Absent, "", "7"},
    commit : {Absent, FullSha},
    isCi   : {"false", "true"} ]

\* The partial records that extend w by the fields F, taken from a record of W
Reads(w, W, F) ==
  { [f \in (DOMAIN w) \cup F |-> IF f \in DOMAIN w THEN w[f] ELSE e[f]] : e \in W }

\* `key in env`
InEnv(e, key) == e[key] # Absent
\* `env.key`
EnvVal(e, key) == IF e[key] = Absent THEN "" ELSE e[key]

\* A variant of getPrNumberFromEnv that always finds pull request 1, against which the
\* properties are tried
getPrNumberAlways(e, pr) == 1

\* getPrNumberFromEnv(pr), e holding env.pr
getPrNumberFromEnv(e, pr) ==
  LET envPr == IF InEnv(e, "pr") THEN ToNum(EnvVal(e, "pr")) ELSE 0
  IN  IF pr # 0 THEN pr ELSE envPr

----------------------------------------------------------------------------
(* Bump kinds and commits *)

NoVersion == ""                       \* SEMVER.noVersion
SEMVER == {"major", "minor", "patch", NoVersion}

Rank(b) == CASE b = "major" -> 4 [] b = "minor" -> 3 [] b = "patch" -> 2 [] b = "skip" -> 1 [] OTHER -> 0

\* The label -> bump map of the default configuration
BumpLabels == [major |-> {"major"}, minor |-> {"minor"}, patch |-> {"patch"}, skip |-> {"skip-release"}]

\* The bump kind of one commit's label set
CommitBump(labels) ==
  IF labels \cap BumpLabels.major # {} THEN "major"
  ELSE IF labels \cap BumpLabels.minor # {} THEN "minor"
  ELSE IF labels \cap BumpLabels.patch # {} THEN "patch"
  ELSE IF labels \cap BumpLabels.skip # {} THEN "skip"
  ELSE "none"

\* calculateSemVerBump(labels, semVerLabels, config): the highest bump of the commits
calculateSemVerBump(labelSets) ==
  LET kinds == {CommitBump(labelSets[i]) : i \in 1..Len(labelSets)}
      top == IF kinds = {} THEN "none" ELSE CHOOSE k \in kinds : \A j \in kinds : Rank(j) <= Rank(k)
  IN  IF Rank(top) >= 2 THEN top ELSE NoVersion

\* The label sets a commit of the range HEAD^..HEAD may carry
HeadLabelSets == { {}, {"patch"}, {"minor"}, {"major"}, {"skip-release"}, {"skip-release", "minor"} }

SeqsUpTo(S, n) == UNION { [1..k -> S] : k \in 0..n }

\* What release.getCommitsInRelease('HEAD^') may answer: the label sets of the commits
HeadLists == SeqsUpTo(HeadLabelSets, MaxCommits)

\* The commits of a release, as handed to the hooks
ReleaseCommits == { [labels |-> {"patch"}] }
ReleaseLists == SeqsUpTo(ReleaseCommits, MaxCommits)

----------------------------------------------------------------------------
(* Version strings: an optional "v", then a semantic version or another tag *)

SemTriples == { <<0, 0, 0>>, <<1, 0, 0>>, <<1, 1, 0>> }
SemStr(t) == ToStr(t[1]) \o "." \o ToStr(t[2]) \o "." \o ToStr(t[3])
OtherTags == { "nightly" }      \* a tag that is no semantic version (or a commit sha)
Bodies == { SemStr(t) : t \in SemTriples } \cup OtherTags
VersionStrs == Bodies \cup { "v" \o b : b \in Bodies }

\* release.startsWith('v')
StartsWithV(s) == \E b \in Bodies : s = "v" \o b

\* semver's parse(s): the version s denotes, <<>> for null
parse(s) ==
  IF \E t \in SemTriples : s \in {SemStr(t), "v" \o SemStr(t)}
  THEN CHOOSE t \in SemTriples : s \in {SemStr(t), "v" \o SemStr(t)}
  ELSE <<>>

Parses(s) == parse(s) # <<>>

\* lastRelease.match(/^\d+\.\d+\.\d+/)
MatchesSemverStart(s) == \E t \in SemTriples : s = SemStr(t)

\* semver's gt(a, b) and eq(a, b), for strings that parse
gt(a, b) ==
  LET x == parse(a)
      y == parse(b)
  IN  \/ x[1] > y[1]
      \/ x[1] = y[1] /\ x[2] > y[2]
      \/ x[1] = y[1] /\ x[2] = y[2] /\ x[3] > y[3]

eq(a, b) == parse(a) = parse(b)

\* Auto.prefixRelease(release), noPrefix being release.options.noVersionPrefix
prefixRelease(noPrefix, s) == IF noPrefix \/ StartsWithV(s) THEN s ELSE "v" \o s

----------------------------------------------------------------------------
(* Facts of the collaborators, fixed at their first read *)

\* w extended by field f with a value of D, unless w already fixes f
Read(w, f, D) ==
  IF f \in DOMAIN w THEN {w}
  ELSE { [g \in (DOMAIN w) \cup {f} |-> IF g = f THEN v ELSE w[g]] : v \in D }

LatestReleases == { "1.0.0", "v1.0.0", "nightly" }   \* git.getLatestRelease()
BumpAnswers == { NoVersion, "patch", "major" }       \* release.getSemverBump()
PrevVersions == { "", "v1.0.0", "v1.1.0", "nightly" } \* the plugins' answer to getPreviousVersion, "" for none

----------------------------------------------------------------------------
(* Hooks and plugins *)

HookNames == { "modifyConfig", "beforeRun", "beforeShipIt", "beforeCommitChangelog",
               "afterAddToChangelog", "afterShipIt", "afterRelease", "getAuthor",
               "getPreviousVersion", "getRepository", "onCreateRelease", "onCreateLogParse",
               "onCreateChangelog", "version", "afterVersion", "publish", "canary",
               "afterPublish" }

\* The hooks a plugin taps in apply(auto): "released" is the released plugin;
\* "publisher" stands for a package-manager plugin (npm, git-tag), which taps the hooks
\* that version and publish the project
TapsOf(plugin) ==
  CASE plugin = "released"  -> {"modifyConfig", "afterRelease"}
    [] plugin = "publisher" -> {"beforeShipIt", "getAuthor", "getPreviousVersion",
                                "getRepository", "beforeCommitChangelog", "afterAddToChangelog",
                                "version", "afterVersion", "publish", "afterPublish", "canary",
                                "afterShipIt"}
    [] OTHER -> {}

\* config.plugins: <<"<default>">> stands for an .autorc that names no plugins
PluginConfigs == { <<"released">>, <<"publisher", "released">> }

\* config.plugins || defaultPlugins
PluginsToLoad(plugins) == IF plugins = <<"<default>">> THEN <<"publisher">> ELSE plugins

RECURSIVE ApplyPlugins(_, _)
\* loadPlugins: every plugin applied in order, each tapping its hooks
ApplyPlugins(h, plugins) ==
  IF plugins = <<>> THEN h
  ELSE ApplyPlugins([n \in HookNames |->
                       IF n \in TapsOf(Head(plugins)) THEN Append(h[n], Head(plugins)) ELSE h[n]],
                    Tail(plugins))

\* A variant of isUsed that takes every hook for tapped
isUsedAlways(h, name) == TRUE

\* hook.isUsed()
isUsed(h, name) == Len(h[name]) > 0

----------------------------------------------------------------------------
(* Calls, frames, options *)

\* One call to a collaborator: k its kind ("hook", "git", "release", "exec", "log",
\* "config", "env"), n the method, a the arguments the model keeps (for a read of the
\* configuration or the environment, what was read)
Ev(k, n, a) == [k |-> k, n |-> n, a |-> a]

NoLoc == [ pr |-> "", build |-> "", version |-> "", canaryVersion |-> "",
           newVersion |-> "", lastRelease |-> "", commits |-> <<>>, call |-> <<>>,
           mcLast |-> "", mcCurrent |-> "", mrLast |-> "", mrRaw |-> "", mrNew |-> "",
           gcvLast |-> "", email |-> "", name |-> "", nth |-> 0 ]

NoOpts == [ dryRun |-> FALSE, pr |-> 0, build |-> "", message |-> "", delete |-> FALSE,
            edit |-> FALSE, from |-> "", to |-> "", useVersion |-> "", sha |-> "",
            context |-> "default" ]

Undefined == [defined |-> FALSE]

\* A variant of PublishInfo that hands nothing back, against which the properties are tried
PublishInfoNothing(newVersion, commitsInRelease) == Undefined

\* `return { newVersion, commitsInRelease }` of canary and publishLatest
PublishInfo(newVersion, commitsInRelease) ==
  [defined |-> TRUE, newVersion |-> newVersion, commitsInRelease |-> commitsInRelease]

\* The options a command may be called with.  For canary, shipit, changelog and release
\* `opts` fixes each option at its first read; the short commands get theirs at once.
OptsFor(c) ==
  CASE c \in {"canary", "shipit"} ->
         { [NoOpts EXCEPT !.dryRun = d, !.pr = p, !.build = b, !.message = m] :
             d \in BOOLEAN, p \in 0..MaxPr, b \in {"", "9"}, m \in {"", "false"} }
    [] c = "prBody" ->
         { [NoOpts EXCEPT !.dryRun = d, !.pr = p, !.message = m, !.delete = x] :
             d \in BOOLEAN, p \in 0..MaxPr, m \in {"", "hello"}, x \in BOOLEAN }
    [] c = "version" ->
         { [NoOpts EXCEPT !.from = f] : f \in {"", "v1.0.0"} }
    [] c = "changelog" ->
         { [NoOpts EXCEPT !.dryRun = d, !.from = f, !.to = t] :
             d \in BOOLEAN, f \in {"", "v1.0.0"}, t \in {"", "HEAD~1"} }
    [] c = "release" ->
         { [NoOpts EXCEPT !.dryRun = d, !.from = f, !.useVersion = u] :
             d \in BOOLEAN, f \in {"", "1.0.0", "nightly"}, u \in {"", "1.1.0", "v1.0.0", "nightly"} }
    [] c = "comment" ->
         { [NoOpts EXCEPT !.dryRun = d, !.pr = p, !.message = m, !.delete = x, !.edit = y] :
             d \in BOOLEAN, p \in 0..MaxPr, m \in {"", "hello"}, x \in BOOLEAN, y \in BOOLEAN }
    [] c = "prStatus" ->
         { [NoOpts EXCEPT !.dryRun = d, !.pr = p, !.sha = h] :
             d \in BOOLEAN, p \in 0..MaxPr, h \in {"", "c0ffee"} }
    [] c = "prCheck" ->
         { [NoOpts EXCEPT !.dryRun = d, !.pr = p] : d \in BOOLEAN, p \in 0..MaxPr }
    [] c = "createLabels" ->
         { [NoOpts EXCEPT !.dryRun = d] : d \in BOOLEAN }
    [] c = "label" ->
         { [NoOpts EXCEPT !.pr = p] : p \in 0..MaxPr }
    [] OTHER -> { NoOpts }

\* The frame on top is replaced by frame l
Goto(l) == stack' = <<l>> \o Tail(stack)
\* Frame l is called; the frame on top continues as frame k when it returns
Call(l, k) == stack' = <<l, k>> \o Tail(stack)
\* The frame on top returns v; the command has ended when it was the last one
Return(v) ==
  /\ rv' = v
  /\ stack' = Tail(stack)
  /\ result' = IF Len(stack) = 1 THEN "ok" ELSE result
\* An error is thrown and no frame catches it
Throw(what) ==
  /\ rv' = [defined |-> FALSE, error |-> what]
  /\ stack' = <<>>
  /\ result' = "error"
\* process.exit(1)
Exit ==
  /\ rv' = Undefined
  /\ stack' = <<>>
  /\ result' = "exit"

At(l) == stack # <<>> /\ Head(stack) = l

Did(e) == calls' = Append(calls, e)
\* The call e is made and rejects
Fails(e, what) == calls' = Append(calls, e) /\ Throw(what)
\* A hook with no tap cannot fail
MayFail(hook) == isUsed(hooks, hook)
Did2(e, f) == calls' = calls \o <<e, f>>

NotInitialized == "Auto is not initialized! Make sure the have run Auto.loadConfig"

----------------------------------------------------------------------------
(* Construction and loadConfig *)

Init ==
  /\ env = <<>>
  /\ repo = <<>>
  /\ hooks = [n \in HookNames |->
                IF n = "onCreateRelease" THEN <<"Link onCreateChangelog", "Link onCreateLogParse">>
                ELSE <<>>]
  /\ config = <<>>
  /\ git = FALSE
  /\ release = FALSE
  /\ versionBump = ""
  /\ cmd = ""
  /\ opts = NoOpts
  /\ stack = <<>>
  /\ loc = NoLoc
  /\ rv = Undefined
  /\ calls = <<>>
  /\ result = ""

\* config.labels.released of the loaded configuration: "" when the .autorc defines no
\* such label, "user" for the definition it gives
LoadedLabels == { "", "user" }

\* The modifyConfig handler of a tap: the released plugin's keeps the label or gives it
\* its default definition; no other plugin of the model changes the configuration
modifyConfig(tap, c) ==
  IF tap = "released"
  THEN [c EXCEPT !.released = IF Truthy(c.released) THEN c.released ELSE "default"]
  ELSE c

RECURSIVE Waterfall(_, _)
\* hooks.modifyConfig.call(c): c threaded through the handlers of the taps, in order
Waterfall(taps, c) ==
  IF taps = <<>> THEN c ELSE Waterfall(Tail(taps), modifyConfig(Head(taps), c))

\* What getRepo may find: nothing, or an owner and repository with or without a token
NoRepository == [known |-> FALSE, token |-> ""]
Repositories == { NoRepository, [known |-> TRUE, token |-> ""], [known |-> TRUE, token |-> "repo-token"] }

\* process.env.GH_TOKEN, "" when unset
EnvTokens == { "", "undefined", "env-token" }

TokenNotFound == "GitHub token not found!"
MustSetOwner == "Must set owner, repo, and GitHub token."

\* A variant of NoToken that takes every token for one
NoTokenNever(token) == FALSE

\* startGit: `!gitOptions.owner || !gitOptions.repo || !gitOptions.token`
MissingGitOptions(known, token) == ~known \/ ~Truthy(token)

\* `!token || token === 'undefined'`
NoToken(token) == ~Truthy(token) \/ token = "undefined"

\* Auto.loadConfig: the configuration is loaded and threaded through modifyConfig, the
\* plugins it names are applied, beforeRun fires, the repository and the token are
\* looked up, and with a token the git client and the release object are made
LoadConfig ==
  /\ cmd = "" /\ config = <<>>
  /\ \E plugins \in PluginConfigs, label \in LoadedLabels, inConfig \in Repositories,
        answer \in Repositories, envToken \in EnvTokens :
       LET loaded == [plugins |-> plugins, released |-> label]
           c == Waterfall(hooks["modifyConfig"], loaded)
           h == ApplyPlugins(hooks, PluginsToLoad(c.plugins))
           ask == ~inConfig.known
           repository == IF inConfig.known THEN inConfig
                         ELSE IF isUsed(h, "getRepository") THEN answer ELSE NoRepository
           token == IF repository.known /\ Truthy(repository.token)
                    THEN repository.token ELSE envToken
           before == << Ev("config", "loadConfig", <<loaded, inConfig>>),
                        Ev("hook", "modifyConfig", <<loaded>>),
                        Ev("hook", "beforeRun", <<c>>) >>
           asked == IF ask THEN <<Ev("hook", "getRepository", <<repository>>)>> ELSE <<>>
           read == IF repository.known /\ Truthy(repository.token) THEN <<>>
                   ELSE <<Ev("env", "GH_TOKEN", <<envToken>>)>>
           fail(what) == /\ rv' = [defined |-> FALSE, error |-> what]
                         /\ UNCHANGED <<git, release>>
       IN  /\ config' = c.plugins
           /\ hooks' = h
           /\ \/ /\ ask /\ isUsed(h, "getRepository")
                 /\ calls' = calls \o before \o <<Ev("hook", "getRepository", <<>>)>>
                 /\ fail("getRepository")
              \/ IF NoToken(token)
                 THEN /\ calls' = calls \o before \o asked \o read
                           \o <<Ev("log", "error", <<"No GitHub was found.">>)>>
                      /\ fail(TokenNotFound)
                 ELSE IF MissingGitOptions(repository.known, token)
                 THEN /\ calls' = calls \o before \o asked \o read
                      /\ fail(MustSetOwner)
                 ELSE /\ calls' = calls \o before \o asked \o read
                           \o <<Ev("hook", "onCreateRelease", <<>>)>>
                      /\ git' = TRUE
                      /\ release' = TRUE
                      /\ rv' = Undefined
  /\ UNCHANGED <<env, repo, versionBump, cmd, opts, stack, loc, result>>

Commands == { "version", "changelog", "release", "canary", "shipit", "comment", "prBody",
              "prStatus", "prCheck", "createLabels", "label" }

LongCommands == { "canary", "shipit", "changelog", "release" }

\* The options extended by the fields F
Options(F) == Reads(opts, OptsFor(cmd), F)

\* A command of the node API is called
Start ==
  /\ cmd = ""
  /\ \E c \in Commands :
       \E o \in (IF c \in LongCommands THEN {NoOpts} ELSE OptsFor(c)) :
         /\ cmd' = c
         /\ opts' = IF c \in LongCommands THEN <<>> ELSE o
         /\ stack' = <<c>>
         /\ loc' = [NoLoc EXCEPT !.call = o]
  /\ calls' = <<>>
  /\ UNCHANGED <<env, repo, hooks, config, git, release, versionBump, rv, result>>

----------------------------------------------------------------------------
(* Auto.prBody *)

\* getPrNumber(command, pr): the PR number, 0 when it throws
PrNumberOrThrow(e, pr) == getPrNumberFromEnv(e, pr)

CouldNotDetectPr == "Could not detect PR number."

\* prBody up to its first await: the checks, the dry-run report, the deletion
PrBody ==
  /\ At("prBody")
  /\ IF ~git
     THEN Throw(NotInitialized) /\ UNCHANGED <<env, calls>>
     ELSE \E e \in Reads(env, Envs, {"pr"}) :
            /\ env' = e
            /\ LET prNumber == PrNumberOrThrow(e, loc.call.pr)
               IN  IF prNumber = 0 THEN Throw(CouldNotDetectPr) /\ UNCHANGED calls
                   ELSE IF loc.call.dryRun
                   THEN Did(Ev("log", "info", <<"Would have", loc.call.delete>>)) /\ Return(Undefined)
                   ELSE IF loc.call.delete
                   THEN \/ Did(Ev("git", "addToPrBody", <<"", prNumber, loc.call.context>>)) /\ Goto("prBody_message")
                           /\ UNCHANGED <<rv, result>>
                        \/ Did(Ev("git", "addToPrBody", <<"", prNumber, loc.call.context>>)) /\ Throw("addToPrBody")
                   ELSE Goto("prBody_message") /\ UNCHANGED <<calls, rv, result>>
  /\ UNCHANGED <<repo, hooks, config, git, release, versionBump, cmd, opts, loc>>

\* prBody: the message is added to the PR body
PrBodyMessage ==
  /\ At("prBody_message")
  /\ LET prNumber == PrNumberOrThrow(env, loc.call.pr)
     IN  IF Truthy(loc.call.message)
         THEN \/ Did2(Ev("git", "addToPrBody", <<loc.call.message, prNumber, loc.call.context>>),
                      Ev("log", "success", <<"Updated body on PR">>))
                 /\ Return(Undefined)
              \/ Did(Ev("git", "addToPrBody", <<loc.call.message, prNumber, loc.call.context>>))
                 /\ Throw("addToPrBody")
         ELSE Did(Ev("log", "success", <<"Updated body on PR">>)) /\ Return(Undefined)
  /\ UNCHANGED <<env, repo, hooks, config, git, release, versionBump, cmd, opts, loc>>

----------------------------------------------------------------------------
(* Auto.canary *)

\* A variant of CanaryPr in which the CI environment's pr overrides the option
CanaryPrEnvFirst(e, o) ==
  IF InEnv(e, "pr") /\ (InEnv(e, "build") \/ InEnv(e, "commit")) /\ Truthy(EnvVal(e, "pr"))
  THEN EnvVal(e, "pr")
  ELSE IF o.pr # 0 THEN ToStr(o.pr) ELSE ""

\* The pr and build the canary is named after: the CI environment's, overridden by the options
CanaryPr(e, o) ==
  LET fromEnv == IF InEnv(e, "pr") /\ InEnv(e, "build") THEN EnvVal(e, "pr")
                 ELSE IF InEnv(e, "pr") /\ InEnv(e, "commit") THEN EnvVal(e, "pr")
                 ELSE ""
  IN  IF o.pr # 0 THEN ToStr(o.pr) ELSE fromEnv

CanaryBuild(e, o) ==
  LET fromEnv == IF InEnv(e, "pr") /\ InEnv(e, "build") THEN EnvVal(e, "build")
                 ELSE IF InEnv(e, "pr") /\ InEnv(e, "commit") THEN EnvVal(e, "commit")
                 ELSE ""
  IN  IF Truthy(o.build) THEN o.build ELSE fromEnv

\* The suffix before the sha is appended
CanaryPrefix(pr, build) ==
  (IF Truthy(pr) THEN "." \o pr ELSE "") \o (IF Truthy(build) THEN "." \o build ELSE "")

\* A variant of NeedsSha that asks for the sha only when both are missing
NeedsShaWhenNeither(pr, build) == ~Truthy(pr) /\ ~Truthy(build)

\* `!pr || !build`: the short sha is asked for and appended
NeedsSha(pr, build) == ~Truthy(pr) \/ ~Truthy(build)

\* canary up to its first await: the checks, then pr and build
Canary ==
  /\ At("canary")
  /\ IF ~git \/ ~release
     THEN Throw(NotInitialized) /\ UNCHANGED <<env, opts, calls, loc>>
     ELSE IF ~isUsed(hooks, "canary")
     THEN Did(Ev("log", "error", <<"None of the plugins implement canary">>)) /\ Exit
          /\ UNCHANGED <<env, opts, loc>>
     ELSE \E e \in Reads(env, Envs, {"pr", "build", "commit"}), o \in Options({"pr", "build"}) :
            /\ env' = e
            /\ opts' = o
            /\ loc' = [loc EXCEPT !.pr = CanaryPr(e, o), !.build = CanaryBuild(e, o)]
            /\ Goto("canary_head")
            /\ UNCHANGED <<calls, rv, result>>
  /\ UNCHANGED <<repo, hooks, config, git, release, versionBump, cmd>>

\* A variant of CanaryVersionBump that always bumps the patch, against which the
\* properties are tried
CanaryVersionPatch(head) == "patch"

\* `calculateSemVerBump(labels, ...) || SEMVER.patch`
CanaryVersionBump(head) ==
  IF calculateSemVerBump(head) # NoVersion THEN calculateSemVerBump(head) ELSE "patch"

\* canary: the commits of HEAD^..HEAD and their bump
CanaryHead ==
  /\ At("canary_head")
  /\ \/ \E head \in HeadLists :
          /\ loc' = [loc EXCEPT !.version = CanaryVersionBump(head)]
          /\ Did(Ev("release", "getCommitsInRelease", <<"HEAD^">>))
          /\ Goto("canary_sha")
          /\ UNCHANGED <<rv, result>>
     \/ Did(Ev("release", "getCommitsInRelease", <<"HEAD^">>))
        /\ Throw("getCommitsInRelease") /\ UNCHANGED loc
  /\ UNCHANGED <<env, repo, hooks, config, git, release, versionBump, cmd, opts>>

\* canary: the suffix, with the short sha when pr or build is missing; the dry-run report
CanarySha ==
  /\ At("canary_sha")
  /\ LET prefix == CanaryPrefix(loc.pr, loc.build)
         next(o) == IF o.dryRun THEN "canary_tag" ELSE "canary_hook"
         warn(o) == IF o.dryRun
                    THEN <<Ev("log", "warn", <<"Published canary identifier would be">>)>>
                    ELSE <<>>
     IN  IF NeedsSha(loc.pr, loc.build)
         THEN \/ \E o \in Options({"dryRun"}) :
                   /\ opts' = o
                   /\ loc' = [loc EXCEPT !.canaryVersion = prefix \o "." \o ShortSha]
                   /\ calls' = calls \o <<Ev("git", "getSha", <<TRUE>>)>> \o warn(o)
                   /\ Goto(next(o))
                   /\ UNCHANGED <<rv, result>>
              \/ Fails(Ev("git", "getSha", <<TRUE>>), "getSha") /\ UNCHANGED <<opts, loc>>
         ELSE \E o \in Options({"dryRun"}) :
                /\ opts' = o
                /\ loc' = [loc EXCEPT !.canaryVersion = prefix]
                /\ calls' = calls \o warn(o)
                /\ Goto(next(o))
                /\ UNCHANGED <<rv, result>>
  /\ UNCHANGED <<env, repo, hooks, config, git, release, versionBump, cmd>>

\* What the canary hook's handlers may resolve to: a version ("" when none of them
\* answered), or a structured failure
CanaryVersions == { "", "1.0.1-canary.1" }
CanaryAnswers ==
  { [type |-> "string", value |-> v] : v \in CanaryVersions }
    \cup { [type |-> "object", value |-> "canary failed"] }

\* newVersion.includes('\n')
IncludesNewline(s) == s = "a@1.0.1\nb@1.0.1"

DefaultCanaryMessage == <<"Published PR with canary version: ", "%v">>

\* options.message || 'Published PR with canary version: %v', as the parts around %v
CanaryMessage(o) == IF Truthy(o.message) THEN <<o.message>> ELSE DefaultCanaryMessage

RECURSIVE ReplaceV(_, _)
\* message.replace('%v', x)
ReplaceV(parts, x) ==
  IF parts = <<>> THEN ""
  ELSE IF Head(parts) = "%v" THEN x \o ReplaceV(Tail(parts), "%v")
  ELSE Head(parts) \o ReplaceV(Tail(parts), x)

\* The version as it is put into the message
Quoted(newVersion) ==
  IF ~Truthy(newVersion) \/ IncludesNewline(newVersion) THEN newVersion
  ELSE "'" \o newVersion \o "'"    \* the source quotes with backticks

\* A variant of CanaryFailure that returns as a published canary does
CanaryFailureAsPublished == PublishInfo("", <<>>)

\* What canary returns after a structured failure: `return;`
CanaryFailure == Undefined

\* hooks.canary.promise(version, canaryVersion)
CanaryCall == Ev("hook", "canary", <<loc.version, loc.canaryVersion>>)

\* logger.log.warn(result.error)
CanaryWarn(answer) == Ev("log", "warn", <<answer.value>>)

\* canary: the canary hook is called; a structured failure ends the command, a
\* version is reported on the PR
CanaryHook ==
  /\ At("canary_hook")
  /\ \/ Fails(CanaryCall, "canary") /\ UNCHANGED <<opts, loc>>
     \/ \E answer \in CanaryAnswers :
          IF answer.type = "object"
          THEN /\ Did2(CanaryCall, CanaryWarn(answer))
               /\ Return(CanaryFailure)
               /\ UNCHANGED <<opts, loc>>
          ELSE \E o \in Options({"message"}) :
                 /\ opts' = o
                 /\ Did(CanaryCall)
                 /\ IF CanaryMessage(o) # <<"false">> /\ Truthy(loc.pr)
                    THEN /\ loc' = [loc EXCEPT
                                      !.newVersion = answer.value,
                                      !.call = [NoOpts EXCEPT
                                                  !.pr = ToNum(loc.pr),
                                                  !.message = ReplaceV(CanaryMessage(o), Quoted(answer.value)),
                                                  !.context = "canary-version"]]
                         /\ Call("prBody", "canary_published")
                    ELSE /\ loc' = [loc EXCEPT !.newVersion = answer.value]
                         /\ Goto("canary_published")
                 /\ UNCHANGED <<rv, result>>
  /\ UNCHANGED <<env, repo, hooks, config, git, release, versionBump, cmd>>

\* canary: the published version is reported
CanaryPublished ==
  /\ At("canary_published")
  /\ Did(Ev("log", "success", <<"Published canary version", loc.newVersion>>))
  /\ Goto("canary_tag")
  /\ UNCHANGED <<env, repo, hooks, config, git, release, versionBump, cmd, opts, loc, rv, result>>

\* canary: the latest tag of the branch, or the first commit when there is none
CanaryTag ==
  /\ At("canary_tag")
  /\ \/ Did(Ev("git", "getLatestTagInBranch", <<>>)) /\ Goto("canary_commits")
        /\ UNCHANGED <<rv, result>>
     \/ Did2(Ev("git", "getLatestTagInBranch", <<>>), Ev("git", "getFirstCommit", <<>>))
        /\ Goto("canary_commits") /\ UNCHANGED <<rv, result>>
     \/ Did2(Ev("git", "getLatestTagInBranch", <<>>), Ev("git", "getFirstCommit", <<>>))
        /\ Throw("getFirstCommit")
  /\ UNCHANGED <<env, repo, hooks, config, git, release, versionBump, cmd, opts, loc>>

\* canary: the commits since that tag; the command returns them with the version
CanaryCommits ==
  /\ At("canary_commits")
  /\ Did(Ev("release", "getCommits", <<>>))
  /\ \/ \E r \in Read(repo, "commits", ReleaseLists) :
          /\ repo' = r
          /\ Return(PublishInfo(loc.newVersion, r.commits))
     \/ Throw("getCommits") /\ UNCHANGED repo
  /\ UNCHANGED <<env, hooks, config, git, release, versionBump, cmd, opts, loc>>

----------------------------------------------------------------------------
(* Auto.getVersion *)

\* A variant of GetVersion that does not look for the git client and the release
\* object, against which the properties are tried
GetVersionUnchecked ==
  /\ At("getVersion")
  /\ IF Truthy(loc.call.from)
     THEN /\ loc' = [loc EXCEPT !.lastRelease = loc.call.from]
          /\ Goto("getVersion_bump")
          /\ UNCHANGED <<repo, calls, rv, result>>
     ELSE \/ \E r \in Read(repo, "latestRelease", LatestReleases) :
               /\ repo' = r
               /\ loc' = [loc EXCEPT !.lastRelease = r.latestRelease]
               /\ Did(Ev("git", "getLatestRelease", <<>>))
               /\ Goto("getVersion_bump")
               /\ UNCHANGED <<rv, result>>
          \/ Fails(Ev("git", "getLatestRelease", <<>>), "getLatestRelease")
             /\ UNCHANGED <<repo, loc>>
  /\ UNCHANGED <<env, hooks, config, git, release, versionBump, cmd, opts>>

\* getVersion({from}): the last release, unless `from` names it
GetVersion ==
  /\ At("getVersion")
  /\ IF ~git \/ ~release
     THEN Throw(NotInitialized) /\ UNCHANGED <<repo, calls, loc>>
     ELSE IF Truthy(loc.call.from)
     THEN /\ loc' = [loc EXCEPT !.lastRelease = loc.call.from]
          /\ Goto("getVersion_bump")
          /\ UNCHANGED <<repo, calls, rv, result>>
     ELSE \/ \E r \in Read(repo, "latestRelease", LatestReleases) :
               /\ repo' = r
               /\ loc' = [loc EXCEPT !.lastRelease = r.latestRelease]
               /\ Did(Ev("git", "getLatestRelease", <<>>))
               /\ Goto("getVersion_bump")
               /\ UNCHANGED <<rv, result>>
          \/ Fails(Ev("git", "getLatestRelease", <<>>), "getLatestRelease")
             /\ UNCHANGED <<repo, loc>>
  /\ UNCHANGED <<env, hooks, config, git, release, versionBump, cmd, opts>>

\* getVersion: the bump since the last release, kept as Auto.versionBump
GetVersionBump ==
  /\ At("getVersion_bump")
  /\ \/ \E r \in Read(repo, "bump", BumpAnswers) :
          /\ repo' = r
          /\ versionBump' = r.bump
          /\ Did(Ev("release", "getSemverBump", <<loc.lastRelease>>))
          /\ Return([defined |-> TRUE, value |-> r.bump])
     \/ Fails(Ev("release", "getSemverBump", <<loc.lastRelease>>), "getSemverBump")
        /\ UNCHANGED <<repo, versionBump>>
  /\ UNCHANGED <<env, hooks, config, git, release, cmd, opts, loc>>

----------------------------------------------------------------------------
(* Auto.shipit and Auto.publishLatest *)

\* Auto.baseBranch, of the default configuration
baseBranch == "master"

\* A variant of isBaseBranch that does not look at isPr
isBaseBranchAnyPr(e) == InEnv(e, "branch") /\ EnvVal(e, "branch") = baseBranch

\* `!isPR && 'branch' in env && env.branch === this.baseBranch`
isBaseBranch(e) ==
  LET isPR == InEnv(e, "isPr") /\ EnvVal(e, "isPr") = "true"
  IN  ~isPR /\ InEnv(e, "branch") /\ EnvVal(e, "branch") = baseBranch

\* shipit up to its first await: the checks, beforeShipIt, the choice of the path
Shipit ==
  /\ At("shipit")
  /\ IF ~git \/ ~release
     THEN Throw(NotInitialized) /\ UNCHANGED <<env, calls>>
     ELSE \/ /\ MayFail("beforeShipIt")
             /\ Fails(Ev("hook", "beforeShipIt", <<>>), "beforeShipIt")
             /\ UNCHANGED env
          \/ \E e \in Reads(env, Envs, {"isPr", "branch"}) :
               /\ env' = e
               /\ Did(Ev("hook", "beforeShipIt", <<>>))
               /\ Call(IF isBaseBranch(e) THEN "publishLatest" ELSE "canary", "shipit_after")
               /\ UNCHANGED <<rv, result>>
  /\ UNCHANGED <<repo, hooks, config, git, release, versionBump, cmd, opts, loc>>

\* shipit: with something published (or tried), afterShipIt fires
ShipitAfter ==
  /\ At("shipit_after")
  /\ IF ~rv.defined
     THEN Return(Undefined) /\ UNCHANGED calls
     ELSE \/ Did(Ev("hook", "afterShipIt", <<rv.newVersion, rv.commitsInRelease>>))
             /\ Return(Undefined)
          \/ /\ MayFail("afterShipIt")
             /\ Fails(Ev("hook", "afterShipIt", <<rv.newVersion, rv.commitsInRelease>>), "afterShipIt")
  /\ UNCHANGED <<env, repo, hooks, config, git, release, versionBump, cmd, opts, loc>>

\* publishLatest up to its first await
PublishLatest ==
  /\ At("publishLatest")
  /\ IF ~git \/ ~release
     THEN Throw(NotInitialized) /\ UNCHANGED loc
     ELSE /\ loc' = [loc EXCEPT !.call = NoOpts]
          /\ Call("getVersion", "publishLatest_version")
          /\ UNCHANGED <<rv, result>>
  /\ UNCHANGED <<env, repo, hooks, config, git, release, versionBump, cmd, opts, calls>>

\* A variant of NothingToPublish that never ends the run
NothingToPublishNever(version) == FALSE

\* `version === ''`
NothingToPublish(version) == version = NoVersion

\* publishLatest: nothing is published for the empty bump; else the last release is read
PublishLatestVersion ==
  /\ At("publishLatest_version")
  /\ IF NothingToPublish(rv.value)
     THEN /\ Did(Ev("log", "info", <<"No version published.">>))
          /\ Return(Undefined)
          /\ UNCHANGED <<repo, loc>>
     ELSE \/ \E r \in Read(repo, "latestRelease", LatestReleases) :
               /\ repo' = r
               /\ loc' = [loc EXCEPT !.version = rv.value, !.lastRelease = r.latestRelease]
               /\ Did(Ev("git", "getLatestRelease", <<>>))
               /\ Goto("publishLatest_commits")
               /\ UNCHANGED <<rv, result>>
          \/ Fails(Ev("git", "getLatestRelease", <<>>), "getLatestRelease")
             /\ UNCHANGED <<repo, loc>>
  /\ UNCHANGED <<env, hooks, config, git, release, versionBump, cmd, opts>>

\* publishLatest: the commits of the release, then the changelog
PublishLatestCommits ==
  /\ At("publishLatest_commits")
  /\ \/ \E r \in Read(repo, "commits", ReleaseLists) :
          /\ repo' = r
          /\ loc' = [loc EXCEPT !.commits = r.commits]
          /\ Did(Ev("release", "getCommitsInRelease", <<loc.lastRelease>>))
          /\ Call("makeChangelog", "publishLatest_hooks")
          /\ UNCHANGED <<rv, result>>
     \/ Fails(Ev("release", "getCommitsInRelease", <<loc.lastRelease>>), "getCommitsInRelease")
        /\ UNCHANGED <<repo, loc>>
  /\ UNCHANGED <<env, hooks, config, git, release, versionBump, cmd, opts>>

\* A variant of PublishStage that publishes before it versions
PublishStageSwapped(frame) ==
  CASE frame = "publishLatest_version_hook"      -> [hook |-> "publish", a |-> <<loc.version>>, next |-> "publishLatest_afterVersion_hook"]
    [] frame = "publishLatest_afterVersion_hook" -> [hook |-> "afterVersion", a |-> <<>>, next |-> "publishLatest_publish_hook"]
    [] frame = "publishLatest_publish_hook"      -> [hook |-> "version", a |-> <<loc.version>>, next |-> "publishLatest_afterPublish_hook"]
    [] frame = "publishLatest_afterPublish_hook" -> [hook |-> "afterPublish", a |-> <<>>, next |-> "publishLatest_release"]

\* The hooks publishLatest fires between the changelog and the release
PublishStage(frame) ==
  CASE frame = "publishLatest_version_hook"      -> [hook |-> "version", a |-> <<loc.version>>, next |-> "publishLatest_afterVersion_hook"]
    [] frame = "publishLatest_afterVersion_hook" -> [hook |-> "afterVersion", a |-> <<>>, next |-> "publishLatest_publish_hook"]
    [] frame = "publishLatest_publish_hook"      -> [hook |-> "publish", a |-> <<loc.version>>, next |-> "publishLatest_afterPublish_hook"]
    [] frame = "publishLatest_afterPublish_hook" -> [hook |-> "afterPublish", a |-> <<>>, next |-> "publishLatest_release"]

PublishFrames == { "publishLatest_version_hook", "publishLatest_afterVersion_hook",
                   "publishLatest_publish_hook", "publishLatest_afterPublish_hook" }

\* publishLatest: a dry run skips the four hooks
PublishLatestHooks ==
  /\ At("publishLatest_hooks")
  /\ \E o \in Options({"dryRun"}) :
       /\ opts' = o
       /\ Goto(IF o.dryRun THEN "publishLatest_release" ELSE "publishLatest_version_hook")
  /\ UNCHANGED <<env, repo, hooks, config, git, release, versionBump, cmd, loc, rv, calls, result>>

\* publishLatest: version, afterVersion, publish, afterPublish, each awaited
PublishLatestHook ==
  /\ stack # <<>> /\ Head(stack) \in PublishFrames
  /\ LET st == PublishStage(Head(stack))
     IN  \/ Did(Ev("hook", st.hook, st.a)) /\ Goto(st.next) /\ UNCHANGED <<rv, result>>
         \/ MayFail(st.hook) /\ Fails(Ev("hook", st.hook, st.a), st.hook)
  /\ UNCHANGED <<env, repo, hooks, config, git, release, versionBump, cmd, opts, loc>>

\* publishLatest: the release is made
PublishLatestRelease ==
  /\ At("publishLatest_release")
  /\ Call("makeRelease", "publishLatest_released")
  /\ UNCHANGED <<env, repo, hooks, config, git, release, versionBump, cmd, opts, loc, rv, calls, result>>

\* publishLatest: after the release; a dry run reports the version it would publish
PublishLatestReleased ==
  /\ At("publishLatest_released")
  /\ IF opts.dryRun
     THEN /\ loc' = [loc EXCEPT !.newVersion = IF rv.defined THEN rv.value ELSE "",
                                !.gcvLast = loc.lastRelease]
          /\ Did(Ev("log", "warn", <<"The version reported hasn't been incremented during dry-run">>))
          /\ Call("getCurrentVersion", "publishLatest_dry")
          /\ UNCHANGED <<rv, result>>
     ELSE /\ Return(PublishInfo(IF rv.defined THEN rv.value ELSE "", loc.commits))
          /\ UNCHANGED <<loc, calls>>
  /\ UNCHANGED <<env, repo, hooks, config, git, release, versionBump, cmd, opts>>

\* publishLatest: the end of a dry run
PublishLatestDry ==
  /\ At("publishLatest_dry")
  /\ IF Parses(rv.value)
     THEN Did(Ev("log", "warn", <<"Published version would be">>))
     ELSE UNCHANGED calls
  /\ Return(PublishInfo(loc.newVersion, loc.commits))
  /\ UNCHANGED <<env, repo, hooks, config, git, release, versionBump, cmd, opts, loc>>

----------------------------------------------------------------------------
(* Auto.setGitUser *)

\* release.options.email and release.options.name
AuthorOptions == { [email |-> "", name |-> ""], [email |-> "ci@x.y", name |-> ""] }

ConfigGet(key) == Ev("exec", "git config", <<key>>)
ConfigSet(key, value) == Ev("exec", "git config", <<key, "\"" \o value \o "\"">>)

\* setGitUser: the identity git has; without one, and in CI, the author is looked up
SetGitUser ==
  /\ At("setGitUser")
  /\ \/ /\ Did2(ConfigGet("user.email"), ConfigGet("user.name"))
        /\ Return(Undefined)
        /\ UNCHANGED <<env, repo, loc>>
     \/ \E read \in { <<ConfigGet("user.email")>>, <<ConfigGet("user.email"), ConfigGet("user.name")>> } :
        \E e \in Reads(env, Envs, {"isCi"}) :
          /\ env' = e
          /\ IF e.isCi # "true"
             THEN /\ calls' = calls \o read \o
                       << Ev("log", "warn", <<"Could not find git user or email">>),
                          Ev("log", "note", <<"Detected local environment, will not set git user">>) >>
                  /\ Return(Undefined)
                  /\ UNCHANGED <<repo, loc>>
             ELSE \E r \in Read(repo, "author", AuthorOptions) :
                    /\ repo' = r
                    /\ loc' = [loc EXCEPT !.email = r.author.email, !.name = r.author.name]
                    /\ calls' = calls \o read \o
                         << Ev("log", "warn", <<"Could not find git user or email">>) >>
                    /\ Goto("setGitUser_author")
                    /\ UNCHANGED <<rv, result>>
  /\ UNCHANGED <<hooks, config, git, release, versionBump, cmd, opts>>

\* What the getAuthor handlers may resolve to ("" for nothing)
PackageAuthors == { [email |-> "", name |-> ""], [email |-> "a@b.c", name |-> "Ann"] }

\* setGitUser: the getAuthor hook fills in what the options leave open
SetGitUserAuthor ==
  /\ At("setGitUser_author")
  /\ \/ \E a \in (IF isUsed(hooks, "getAuthor") THEN PackageAuthors ELSE { [email |-> "", name |-> ""] }) :
          /\ loc' = [loc EXCEPT !.email = IF ~Truthy(loc.email) THEN a.email ELSE loc.email,
                                !.name = IF ~Truthy(loc.name) THEN a.name ELSE loc.name]
          /\ Did(Ev("hook", "getAuthor", <<>>))
          /\ Goto("setGitUser_email")
          /\ UNCHANGED <<rv, result>>
     \/ /\ MayFail("getAuthor")
        /\ Fails(Ev("hook", "getAuthor", <<>>), "getAuthor")
        /\ UNCHANGED loc
  /\ UNCHANGED <<env, repo, hooks, config, git, release, versionBump, cmd, opts>>

\* setGitUser: user.email is written when an email is known
SetGitUserEmail ==
  /\ At("setGitUser_email")
  /\ IF Truthy(loc.email)
     THEN \/ Did(ConfigSet("user.email", loc.email)) /\ Goto("setGitUser_name")
             /\ UNCHANGED <<rv, result>>
          \/ Fails(ConfigSet("user.email", loc.email), "git config")
     ELSE Goto("setGitUser_name") /\ UNCHANGED <<calls, rv, result>>
  /\ UNCHANGED <<env, repo, hooks, config, git, release, versionBump, cmd, opts, loc>>

\* setGitUser: user.name is written when a name is known
SetGitUserName ==
  /\ At("setGitUser_name")
  /\ IF Truthy(loc.name)
     THEN \/ Did(ConfigSet("user.name", loc.name)) /\ Return(Undefined)
          \/ Fails(ConfigSet("user.name", loc.name), "git config")
     ELSE Return(Undefined) /\ UNCHANGED calls
  /\ UNCHANGED <<env, repo, hooks, config, git, release, versionBump, cmd, opts, loc>>

----------------------------------------------------------------------------
(* Auto.getCurrentVersion *)

\* release.options.noVersionPrefix, read from the facts r
NoPrefix(r) == r.noVersionPrefix

RECURSIVE PreviousVersion(_, _)
\* hooks.getPreviousVersion.promise(prefixRelease): the taps h are asked in order and the
\* first answer wins; a plugin answers r.prevVersion ("" for none), the built-in 'None'
\* tap answers the prefixed 0.0.0
PreviousVersion(h, r) ==
  IF h = <<>> THEN ""
  ELSE LET answer == IF Head(h) = "None" THEN prefixRelease(NoPrefix(r), "0.0.0") ELSE r.prevVersion
       IN  IF Truthy(answer) THEN answer ELSE PreviousVersion(Tail(h), r)

\* The facts getPreviousVersion reads: the plugins' answer when a plugin is tapped, and
\* the prefix option when the 'None' tap is reached
PreviousVersionReads(h, w) ==
  LET plugin == \E i \in 1..Len(h) : h[i] # "None"
      first == IF plugin THEN Read(w, "prevVersion", PrevVersions) ELSE {w}
  IN  UNION { IF plugin /\ Truthy(r.prevVersion) THEN {r} ELSE Read(r, "noVersionPrefix", BOOLEAN)
              : r \in first }

\* A variant of CurrentVersion that always returns the last release, against which the
\* properties are tried
CurrentVersionLast(lastRelease, lastVersion) == lastRelease

\* What getCurrentVersion returns for the hook's answer lastVersion
CurrentVersion(lastRelease, lastVersion) ==
  IF Parses(lastRelease) /\ Parses(lastVersion) /\ gt(lastRelease, lastVersion)
  THEN lastRelease
  ELSE lastVersion

\* getCurrentVersion(lastRelease): the 'None' handler is tapped, getPreviousVersion is
\* asked, and the newer of its answer and the last release is returned
GetCurrentVersion ==
  /\ At("getCurrentVersion")
  /\ hooks' = [hooks EXCEPT !["getPreviousVersion"] = Append(@, "None")]
  /\ \/ \E r \in PreviousVersionReads(hooks'["getPreviousVersion"], repo) :
          /\ repo' = r
          /\ Did(Ev("hook", "getPreviousVersion", <<>>))
          /\ Return([defined |-> TRUE,
                     value |-> CurrentVersion(loc.gcvLast, PreviousVersion(hooks'["getPreviousVersion"], r))])
     \/ /\ isUsed(hooks, "getPreviousVersion")
        /\ Fails(Ev("hook", "getPreviousVersion", <<>>), "getPreviousVersion")
        /\ UNCHANGED repo
  /\ UNCHANGED <<env, config, git, release, versionBump, cmd, opts, loc>>

----------------------------------------------------------------------------
(* Auto.makeChangelog *)

\* makeChangelog up to its first await
MakeChangelog ==
  /\ At("makeChangelog")
  /\ IF ~release \/ ~git
     THEN Throw(NotInitialized)
     ELSE Call("setGitUser", "makeChangelog_last") /\ UNCHANGED <<rv, result>>
  /\ UNCHANGED <<env, repo, hooks, config, git, release, versionBump, cmd, opts, loc, calls>>

\* makeChangelog: the last release, unless `from` names it
MakeChangelogLast ==
  /\ At("makeChangelog_last")
  /\ \E o \in Options({"from"}) :
       /\ opts' = o
       /\ IF Truthy(o.from)
          THEN /\ loc' = [loc EXCEPT !.mcLast = o.from]
               /\ Goto("makeChangelog_notes")
               /\ UNCHANGED <<repo, calls, rv, result>>
          ELSE \/ \E r \in Read(repo, "latestRelease", LatestReleases) :
                    /\ repo' = r
                    /\ loc' = [loc EXCEPT !.mcLast = r.latestRelease]
                    /\ Did(Ev("git", "getLatestRelease", <<>>))
                    /\ Goto("makeChangelog_notes")
                    /\ UNCHANGED <<rv, result>>
               \/ Fails(Ev("git", "getLatestRelease", <<>>), "getLatestRelease")
                  /\ UNCHANGED <<repo, loc>>
  /\ UNCHANGED <<env, hooks, config, git, release, versionBump, cmd>>

\* makeChangelog: the bump and the release notes; a dry run ends here
MakeChangelogNotes ==
  /\ At("makeChangelog_notes")
  /\ \E o \in Options({"to", "dryRun"}) :
       LET bump == Ev("release", "getSemverBump", <<loc.mcLast, o.to>>)
           notes == Ev("release", "generateReleaseNotes", <<loc.mcLast, o.to, versionBump>>)
           info == Ev("log", "info", <<"New Release Notes">>)
       IN  /\ opts' = o
           /\ \/ Fails(bump, "getSemverBump") /\ UNCHANGED <<repo, loc>>
              \/ calls' = calls \o <<bump, notes>> /\ Throw("generateReleaseNotes")
                 /\ UNCHANGED <<repo, loc>>
              \/ \E r \in Read(repo, "bump", BumpAnswers) :
                   /\ repo' = r
                   /\ calls' = calls \o <<bump, notes, info>>
                   /\ IF o.dryRun
                      THEN Return(Undefined) /\ UNCHANGED loc
                      ELSE /\ loc' = [loc EXCEPT !.gcvLast = loc.mcLast]
                           /\ Call("getCurrentVersion", "makeChangelog_add")
                           /\ UNCHANGED <<rv, result>>
  /\ UNCHANGED <<env, hooks, config, git, release, versionBump, cmd>>

\* The ChangelogLifecycle handed to beforeCommitChangelog and afterAddToChangelog
ChangelogOptions ==
  [ bump |-> repo.bump, commits |-> repo.commits, releaseNotes |-> "notes",
    lastRelease |-> loc.mcLast, currentVersion |-> loc.mcCurrent ]

\* makeChangelog: the notes are written to the changelog file, the commits are read
MakeChangelogAdd ==
  /\ At("makeChangelog_add")
  /\ LET add == Ev("release", "addToChangelog", <<"notes", loc.mcLast, rv.value>>)
         commits == Ev("release", "getCommitsInRelease", <<loc.mcLast, opts.to>>)
     IN  \/ Fails(add, "addToChangelog") /\ UNCHANGED <<repo, loc>>
         \/ calls' = calls \o <<add, commits>> /\ Throw("getCommitsInRelease")
            /\ UNCHANGED <<repo, loc>>
         \/ \E r \in Read(repo, "commits", ReleaseLists) :
              /\ repo' = r
              /\ loc' = [loc EXCEPT !.mcCurrent = rv.value]
              /\ calls' = calls \o <<add, commits>>
              /\ Goto("makeChangelog_before")
              /\ UNCHANGED <<rv, result>>
  /\ UNCHANGED <<env, hooks, config, git, release, versionBump, cmd, opts>>

\* makeChangelog: beforeCommitChangelog
MakeChangelogBefore ==
  /\ At("makeChangelog_before")
  /\ \/ Did(Ev("hook", "beforeCommitChangelog", <<ChangelogOptions>>))
        /\ Goto("makeChangelog_commit") /\ UNCHANGED <<rv, result>>
     \/ /\ MayFail("beforeCommitChangelog")
        /\ Fails(Ev("hook", "beforeCommitChangelog", <<ChangelogOptions>>), "beforeCommitChangelog")
  /\ UNCHANGED <<env, repo, hooks, config, git, release, versionBump, cmd, opts, loc>>

\* makeChangelog: the changelog is committed
MakeChangelogCommit ==
  /\ At("makeChangelog_commit")
  /\ \/ Did(Ev("exec", "git commit", <<>>)) /\ Goto("makeChangelog_after")
        /\ UNCHANGED <<rv, result>>
     \/ Fails(Ev("exec", "git commit", <<>>), "git commit")
  /\ UNCHANGED <<env, repo, hooks, config, git, release, versionBump, cmd, opts, loc>>

\* makeChangelog: afterAddToChangelog
MakeChangelogAfter ==
  /\ At("makeChangelog_after")
  /\ \/ Did(Ev("hook", "afterAddToChangelog", <<ChangelogOptions>>)) /\ Return(Undefined)
     \/ /\ MayFail("afterAddToChangelog")
        /\ Fails(Ev("hook", "afterAddToChangelog", <<ChangelogOptions>>), "afterAddToChangelog")
  /\ UNCHANGED <<env, repo, hooks, config, git, release, versionBump, cmd, opts, loc>>

----------------------------------------------------------------------------
(* Auto.makeRelease *)

\* The facts prefixRelease reads
PrefixReads(w) == Read(w, "noVersionPrefix", BOOLEAN)

\* makeRelease up to its first await: the last release, prefixed when it starts as a
\* semantic version
MakeRelease ==
  /\ At("makeRelease")
  /\ IF ~release \/ ~git
     THEN Throw(NotInitialized) /\ UNCHANGED <<repo, opts, loc, calls>>
     ELSE \E o \in Options({"from"}) :
            /\ opts' = o
            /\ \/ /\ ~Truthy(o.from)
                  /\ Fails(Ev("git", "getLatestRelease", <<>>), "getLatestRelease")
                  /\ UNCHANGED <<repo, loc>>
               \/ \E r1 \in (IF Truthy(o.from) THEN {repo} ELSE Read(repo, "latestRelease", LatestReleases)) :
                    LET last == IF Truthy(o.from) THEN o.from ELSE r1.latestRelease
                    IN  \E r \in (IF MatchesSemverStart(last) THEN PrefixReads(r1) ELSE {r1}) :
                          /\ repo' = r
                          /\ loc' = [loc EXCEPT !.mrLast =
                                       IF MatchesSemverStart(last) THEN prefixRelease(NoPrefix(r), last) ELSE last]
                          /\ calls' = calls
                               \o (IF Truthy(o.from) THEN <<>> ELSE <<Ev("git", "getLatestRelease", <<>>)>>)
                               \o <<Ev("log", "info", <<"Last used release:", loc'.mrLast>>)>>
                          /\ Goto("makeRelease_commits")
                          /\ UNCHANGED <<rv, result>>
  /\ UNCHANGED <<env, hooks, config, git, release, versionBump, cmd>>

\* makeRelease: the commits and the notes of the release; then the version, from
\* useVersion or from getCurrentVersion
MakeReleaseCommits ==
  /\ At("makeRelease_commits")
  /\ LET commits == Ev("release", "getCommitsInRelease", <<loc.mrLast>>)
         notes == Ev("release", "generateReleaseNotes", <<loc.mrLast, "", versionBump>>)
         info == Ev("log", "info", <<"Using release notes">>)
     IN  \/ Fails(commits, "getCommitsInRelease") /\ UNCHANGED <<repo, opts, loc>>
         \/ calls' = calls \o <<commits, notes>> /\ Throw("generateReleaseNotes")
            /\ UNCHANGED <<repo, opts, loc>>
         \/ \E r \in Read(repo, "commits", ReleaseLists) :
            \E o \in Options({"useVersion"}) :
              /\ repo' = r
              /\ opts' = o
              /\ calls' = calls \o <<commits, notes, info>>
              /\ IF Truthy(o.useVersion)
                 THEN /\ loc' = [loc EXCEPT !.mrRaw = o.useVersion]
                      /\ Goto("makeRelease_version")
                 ELSE /\ loc' = [loc EXCEPT !.gcvLast = loc.mrLast]
                      /\ Call("getCurrentVersion", "makeRelease_current")
              /\ UNCHANGED <<rv, result>>
  /\ UNCHANGED <<env, hooks, config, git, release, versionBump, cmd>>

\* What git.getLatestTagInBranch() may answer
LatestTags == { "v1.0.0" }

\* makeRelease: the current version, or the latest tag of the branch when there is none
MakeReleaseCurrent ==
  /\ At("makeRelease_current")
  /\ IF Truthy(rv.value)
     THEN /\ loc' = [loc EXCEPT !.mrRaw = rv.value]
          /\ Goto("makeRelease_version")
          /\ UNCHANGED <<calls, rv, result>>
     ELSE \E tag \in LatestTags :
            /\ loc' = [loc EXCEPT !.mrRaw = tag]
            /\ Did(Ev("git", "getLatestTagInBranch", <<>>))
            /\ Goto("makeRelease_version")
            /\ UNCHANGED <<rv, result>>
  /\ UNCHANGED <<env, repo, hooks, config, git, release, versionBump, cmd, opts>>

\* `parse(rawVersion) ? this.prefixRelease(rawVersion) : rawVersion`
NewVersion(noPrefix, rawVersion) ==
  IF Parses(rawVersion) THEN prefixRelease(noPrefix, rawVersion) ELSE rawVersion

\* A variant of SameAsLastRelease for which no version is the last release's, against
\* which the properties are tried
SameAsLastReleaseNever(newVersion, lastRelease) == FALSE

\* `parse(newVersion) && parse(lastRelease) && eq(newVersion, lastRelease)`
SameAsLastRelease(newVersion, lastRelease) ==
  Parses(newVersion) /\ Parses(lastRelease) /\ eq(newVersion, lastRelease)

\* makeRelease: nothing is released without a version, or when the version is the last
\* release's; else the release is created on the hosting platform (not in a dry run)
MakeReleaseVersion ==
  /\ At("makeRelease_version")
  /\ IF ~Truthy(loc.mrRaw)
     THEN /\ Did(Ev("log", "error", <<"Could not calculate next version from last tag.">>))
          /\ Return(Undefined)
          /\ UNCHANGED <<repo, opts, loc>>
     ELSE \E r \in (IF Parses(loc.mrRaw) THEN PrefixReads(repo) ELSE {repo}) :
          \E o \in Options({"dryRun"}) :
            LET newVersion == NewVersion(IF Parses(loc.mrRaw) THEN NoPrefix(r) ELSE FALSE, loc.mrRaw)
                publish == Ev("git", "publish", <<"notes", newVersion>>)
            IN  /\ repo' = r
                /\ opts' = o
                /\ IF ~o.dryRun /\ SameAsLastRelease(newVersion, loc.mrLast)
                   THEN /\ Did(Ev("log", "warn", <<"Nothing released to Github.", newVersion>>))
                        /\ Return(Undefined)
                        /\ UNCHANGED loc
                   ELSE IF o.dryRun
                   THEN /\ Did(Ev("log", "info", <<"Would have released", newVersion>>))
                        /\ loc' = [loc EXCEPT !.mrNew = newVersion]
                        /\ Goto("makeRelease_after")
                        /\ UNCHANGED <<rv, result>>
                   ELSE \/ /\ Did2(Ev("log", "info", <<"Releasing", newVersion>>), publish)
                           /\ loc' = [loc EXCEPT !.mrNew = newVersion]
                           /\ Goto("makeRelease_after")
                           /\ UNCHANGED <<rv, result>>
                        \/ /\ Did2(Ev("log", "info", <<"Releasing", newVersion>>), publish)
                           /\ Throw("git.publish")
                           /\ UNCHANGED loc
  /\ UNCHANGED <<env, hooks, config, git, release, versionBump, cmd>>

\* The argument of the afterRelease hook
AfterReleaseArg ==
  [ lastRelease |-> loc.mrLast, newVersion |-> loc.mrNew, commits |-> repo.commits,
    releaseNotes |-> "notes", response |-> ~opts.dryRun ]

\* makeRelease: afterRelease; the new version is returned
MakeReleaseAfter ==
  /\ At("makeRelease_after")
  /\ \/ Did(Ev("hook", "afterRelease", <<AfterReleaseArg>>))
        /\ Return([defined |-> TRUE, value |-> loc.mrNew])
     \/ /\ MayFail("afterRelease")
        /\ Fails(Ev("hook", "afterRelease", <<AfterReleaseArg>>), "afterRelease")
  /\ UNCHANGED <<env, repo, hooks, config, git, release, versionBump, cmd, opts, loc>>

----------------------------------------------------------------------------
(* The commands version, changelog and release *)

\* version, changelog, runRelease: each logs and calls its worker; version prints the bump
Command ==
  \/ /\ At("version")
     /\ Call("getVersion", "version_print")
     /\ UNCHANGED <<calls, rv, result>>
  \/ /\ At("version_print")
     /\ Did(Ev("log", "console", <<rv.value>>))
     /\ Return(Undefined)
  \/ /\ At("changelog")
     /\ Goto("makeChangelog")
     /\ UNCHANGED <<calls, rv, result>>
  \/ /\ At("release")
     /\ Goto("makeRelease")
     /\ UNCHANGED <<calls, rv, result>>

Commands3 ==
  /\ Command
  /\ UNCHANGED <<env, repo, hooks, config, git, release, versionBump, cmd, opts, loc>>

----------------------------------------------------------------------------
(* Auto.comment *)

\* The tracked comments of the hosting platform: for each pull request or issue its
\* thread, each comment carrying the hidden marker of its context.  The git client
\* (./git) keeps them.
CommentStores == { <<>>, [n \in {1} |-> <<[context |-> "default", body |-> "old"]>>] }

\* The thread of pr
Thread(store, pr) == IF pr \in DOMAIN store THEN store[pr] ELSE <<>>
\* The store with the thread of pr replaced
WithThread(store, pr, thread) ==
  [n \in (DOMAIN store) \cup {pr} |-> IF n = pr THEN thread ELSE store[n]]

\* The positions of the comments of pr that carry the marker of context
TrackedIn(store, pr, context) ==
  { i \in DOMAIN Thread(store, pr) : Thread(store, pr)[i].context = context }

\* getCommentId: the first comment of pr that carries the marker, 0 for none
getCommentId(store, pr, context) ==
  IF TrackedIn(store, pr, context) = {} THEN 0
  ELSE CHOOSE i \in TrackedIn(store, pr, context) : \A j \in TrackedIn(store, pr, context) : i <= j

\* git.deleteComment(pr, context): the tracked comment is removed if there is one
deleteComment(store, pr, context) ==
  LET i == getCommentId(store, pr, context)
      t == Thread(store, pr)
  IN  IF i = 0 THEN store
      ELSE WithThread(store, pr, SubSeq(t, 1, i - 1) \o SubSeq(t, i + 1, Len(t)))

\* git.createComment(message, pr, context): the old tracked comment is deleted and a new
\* one is created at the end of the thread
createComment(store, message, pr, context) ==
  LET s == deleteComment(store, pr, context)
  IN  WithThread(s, pr, Append(Thread(s, pr), [context |-> context, body |-> message]))

\* git.editComment(message, pr, context): the tracked comment is updated in place, or
\* created when there is none
editComment(store, message, pr, context) ==
  LET i == getCommentId(store, pr, context)
      t == Thread(store, pr)
  IN  IF i = 0 THEN WithThread(store, pr, Append(t, [context |-> context, body |-> message]))
      ELSE WithThread(store, pr, [t EXCEPT ![i].body = message])

\* A variant of CommentCreates that never creates, against which the properties are tried
CommentCreatesNever(c) == FALSE

\* `if (message)`: comment creates a comment when it has a message
CommentCreates(c) == Truthy(c.message)

\* `else if (editFlag && message)`: comment edits
CommentEdits(c) == c.edit /\ Truthy(c.message)

\* comment up to its first await: the checks, the dry-run report, the edit or the deletion
Comment ==
  /\ At("comment")
  /\ IF ~git
     THEN Throw(NotInitialized) /\ UNCHANGED <<env, repo, calls>>
     ELSE \E e \in Reads(env, Envs, {"pr"}) :
            /\ env' = e
            /\ LET prNumber == PrNumberOrThrow(e, loc.call.pr)
                   c == loc.call
               IN  IF prNumber = 0 THEN Throw(CouldNotDetectPr) /\ UNCHANGED <<repo, calls>>
                   ELSE IF c.dryRun
                   THEN /\ Did(Ev("log", "info", <<"Would have", c.delete, c.edit>>))
                        /\ Return(Undefined) /\ UNCHANGED repo
                   ELSE IF CommentEdits(c)
                   THEN \E r \in Read(repo, "comments", CommentStores) :
                          \/ /\ repo' = [r EXCEPT !.comments = editComment(r.comments, c.message, prNumber, c.context)]
                             /\ Did2(Ev("git", "editComment", <<c.message, prNumber, c.context>>),
                                     Ev("log", "success", <<"Edited comment">>))
                             /\ Return(Undefined)
                          \/ /\ repo' = r
                             /\ Fails(Ev("git", "editComment", <<c.message, prNumber, c.context>>), "editComment")
                   ELSE IF c.delete
                   THEN \E r \in Read(repo, "comments", CommentStores) :
                          \/ /\ repo' = [r EXCEPT !.comments = deleteComment(r.comments, prNumber, c.context)]
                             /\ Did2(Ev("git", "deleteComment", <<prNumber, c.context>>),
                                     Ev("log", "success", <<"Deleted comment">>))
                             /\ Goto("comment_message") /\ UNCHANGED <<rv, result>>
                          \/ /\ repo' = r
                             /\ Fails(Ev("git", "deleteComment", <<prNumber, c.context>>), "deleteComment")
                   ELSE Goto("comment_message") /\ UNCHANGED <<repo, calls, rv, result>>
  /\ UNCHANGED <<hooks, config, git, release, versionBump, cmd, opts, loc>>

\* comment: the comment is created when there is a message; a create that rejects has
\* deleted the old comment or not
CommentMessage ==
  /\ At("comment_message")
  /\ LET prNumber == PrNumberOrThrow(env, loc.call.pr)
         c == loc.call
     IN  IF CommentCreates(c)
         THEN \E r \in Read(repo, "comments", CommentStores) :
                \/ /\ repo' = [r EXCEPT !.comments = createComment(r.comments, c.message, prNumber, c.context)]
                   /\ Did2(Ev("git", "createComment", <<c.message, prNumber, c.context>>),
                           Ev("log", "success", <<"Commented on PR">>))
                   /\ Return(Undefined)
                \/ /\ repo' \in { r, [r EXCEPT !.comments = deleteComment(r.comments, prNumber, c.context)] }
                   /\ Fails(Ev("git", "createComment", <<c.message, prNumber, c.context>>), "createComment")
         ELSE Return(Undefined) /\ UNCHANGED <<repo, calls>>
  /\ UNCHANGED <<env, hooks, config, git, release, versionBump, cmd, opts, loc>>

\* The number of comment calls one process makes
MaxCommentCalls == 2

\* The calls of a sequence of comments that act on the platform: none is a dry run
CommentCalls == { o \in OptsFor("comment") : ~o.dryRun }

\* comment is called: the first call of the process, or the next one once the previous
\* call has settled
StartComment ==
  /\ \/ cmd = ""
     \/ cmd = "comment" /\ result # "" /\ loc.nth < MaxCommentCalls
  /\ \E o \in CommentCalls :
       /\ cmd' = "comment"
       /\ opts' = o
       /\ stack' = <<"comment">>
       /\ loc' = [NoLoc EXCEPT !.call = o, !.nth = IF cmd = "" THEN 1 ELSE loc.nth + 1]
  /\ calls' = IF cmd = "" THEN <<>> ELSE calls
  /\ rv' = IF cmd = "" THEN rv ELSE Undefined
  /\ result' = ""
  /\ UNCHANGED <<env, repo, hooks, config, git, release, versionBump>>

NextComments == LoadConfig \/ StartComment \/ Comment \/ CommentMessage

\* One process that loads its configuration and calls comment a number of times
SpecComments == Init /\ [][NextComments]_vars

----------------------------------------------------------------------------
(* Auto.prStatus and Auto.prCheck *)

HeadSha == "f00dfeed"     \* res.data.head.sha of a pull request

\* prStatus up to the status: the sha of the option, of the PR, or of HEAD
PrStatus ==
  /\ At("prStatus")
  /\ IF ~git
     THEN Throw(NotInitialized) /\ UNCHANGED <<env, calls, loc>>
     ELSE \E e \in Reads(env, Envs, {"pr"}) :
            /\ env' = e
            /\ LET prNumber == PrNumberOrThrow(e, opts.pr)
                   ask == IF prNumber # 0 THEN Ev("git", "getPullRequest", <<prNumber>>)
                          ELSE Ev("git", "getSha", <<FALSE>>)
               IN  IF Truthy(opts.sha)
                   THEN /\ loc' = [loc EXCEPT !.version = opts.sha]
                        /\ Goto("prStatus_post")
                        /\ UNCHANGED <<calls, rv, result>>
                   ELSE \/ /\ loc' = [loc EXCEPT !.version = IF prNumber # 0 THEN HeadSha ELSE FullSha]
                           /\ Did(ask)
                           /\ Goto("prStatus_post")
                           /\ UNCHANGED <<rv, result>>
                        \/ Fails(ask, ask.n) /\ UNCHANGED loc
  /\ UNCHANGED <<repo, hooks, config, git, release, versionBump, cmd, opts>>

\* prStatus: the status is created, unless this is a dry run
PrStatusPost ==
  /\ At("prStatus_post")
  /\ IF opts.dryRun
     THEN Return(Undefined) /\ UNCHANGED calls
     ELSE \/ Did2(Ev("git", "createStatus", <<loc.version, "">>),
                  Ev("log", "success", <<"Posted status to Pull Request.">>))
             /\ Return(Undefined)
          \/ Fails(Ev("git", "createStatus", <<loc.version, "">>), "Failed to post status to Pull Request")
  /\ UNCHANGED <<env, repo, hooks, config, git, release, versionBump, cmd, opts, loc>>

\* The labels a PR may carry
PrLabelSets == { {}, {"patch"}, {"skip-release"}, {"release"}, {"release", "minor"}, {"docs"} }

\* The labels of the version map and the skip-release labels
SemVerLabelValues == BumpLabels.major \cup BumpLabels.minor \cup BumpLabels.patch
                       \cup BumpLabels.skip \cup {"release"}
SkipReleaseLabels == BumpLabels.skip

\* A variant of PrCheckState that does not look for skip-release labels, against which
\* the properties are tried
PrCheckStateSemver(labels) ==
  IF { l \in labels : l \in SemVerLabelValues /\ l \notin SkipReleaseLabels /\ l # "release" } = {}
  THEN "error" ELSE "success"

\* The state of the status prCheck posts for a PR with these labels
PrCheckState(labels) ==
  LET skipReleaseTag == labels \cap SkipReleaseLabels
      semverTag == { l \in labels : l \in SemVerLabelValues /\ l \notin SkipReleaseLabels /\ l # "release" }
  IN  IF semverTag = {} /\ skipReleaseTag = {} THEN "error" ELSE "success"

\* prCheck up to the status: the PR and its labels are read and judged
PrCheck ==
  /\ At("prCheck")
  /\ IF ~git \/ ~release
     THEN Throw(NotInitialized) /\ UNCHANGED <<env, calls, loc>>
     ELSE \E e \in Reads(env, Envs, {"pr"}) :
            /\ env' = e
            /\ LET prNumber == PrNumberOrThrow(e, opts.pr)
                   getPr == Ev("git", "getPullRequest", <<prNumber>>)
                   getLabels == Ev("git", "getLabels", <<prNumber>>)
               IN  IF prNumber = 0 THEN Throw(CouldNotDetectPr) /\ UNCHANGED <<calls, loc>>
                   ELSE /\ \/ Did(getPr) /\ loc' = [loc EXCEPT !.version = "", !.newVersion = "error"]
                           \/ Did2(getPr, getLabels)
                              /\ loc' = [loc EXCEPT !.version = HeadSha, !.newVersion = "error"]
                           \/ \E labels \in PrLabelSets :
                                /\ Did2(getPr, Ev("git", "getLabels", <<prNumber, labels>>))
                                /\ loc' = [loc EXCEPT !.version = HeadSha,
                                                      !.newVersion = PrCheckState(labels)]
                        /\ Goto("prCheck_post")
                        /\ UNCHANGED <<rv, result>>
  /\ UNCHANGED <<repo, hooks, config, git, release, versionBump, cmd, opts>>

\* prCheck: the status is created, unless this is a dry run
PrCheckPost ==
  /\ At("prCheck_post")
  /\ IF opts.dryRun
     THEN Return(Undefined) /\ UNCHANGED calls
     ELSE \/ Did2(Ev("git", "createStatus", <<loc.version, loc.newVersion>>),
                  Ev("log", "success", <<"Posted status to Pull Request.">>))
             /\ Return(Undefined)
          \/ Fails(Ev("git", "createStatus", <<loc.version, loc.newVersion>>),
                   "Failed to post status to Pull Request")
  /\ UNCHANGED <<env, repo, hooks, config, git, release, versionBump, cmd, opts, loc>>

----------------------------------------------------------------------------
(* Auto.createLabels and Auto.label *)

\* createLabels: the labels of the configuration are added to the project; this.labels
\* is set by the loadConfig that went on to set this.release
CreateLabels ==
  /\ At("createLabels")
  /\ IF ~release \/ config = <<>>
     THEN Throw(NotInitialized) /\ UNCHANGED calls
     ELSE \/ Did(Ev("release", "addLabelsToProject", <<opts.dryRun>>)) /\ Return(Undefined)
          \/ Fails(Ev("release", "addLabelsToProject", <<opts.dryRun>>), "addLabelsToProject")
  /\ UNCHANGED <<env, repo, hooks, config, git, release, versionBump, cmd, opts, loc>>

\* label: the labels of the PR, or of the last merged PR, are printed if there are any
Label ==
  /\ At("label")
  /\ IF ~git
     THEN Throw(NotInitialized) /\ UNCHANGED <<env, calls>>
     ELSE \E e \in Reads(env, Envs, {"pr"}) :
            /\ env' = e
            /\ LET number == getPrNumberFromEnv(e, opts.pr)
                   ask == IF number # 0 THEN Ev("git", "getLabels", <<number>>)
                          ELSE Ev("git", "getPullRequests", <<"closed">>)
               IN  \/ Fails(ask, ask.n)
                   \/ \E labels \in PrLabelSets :
                        /\ calls' = calls \o <<ask>>
                             \o (IF labels # {} THEN <<Ev("log", "console", <<labels>>)>> ELSE <<>>)
                        /\ Return(Undefined)
  /\ UNCHANGED <<repo, hooks, config, git, release, versionBump, cmd, opts, loc>>

----------------------------------------------------------------------------
(* The specification *)

Next ==
  \/ LoadConfig
  \/ Start
  \/ Commands3
  \/ GetVersion \/ GetVersionBump
  \/ Shipit \/ ShipitAfter
  \/ PublishLatest \/ PublishLatestVersion \/ PublishLatestCommits \/ PublishLatestHooks
  \/ PublishLatestHook \/ PublishLatestRelease \/ PublishLatestReleased \/ PublishLatestDry
  \/ Canary \/ CanaryHead \/ CanarySha \/ CanaryHook \/ CanaryPublished \/ CanaryTag \/ CanaryCommits
  \/ SetGitUser \/ SetGitUserAuthor \/ SetGitUserEmail \/ SetGitUserName
  \/ GetCurrentVersion
  \/ MakeChangelog \/ MakeChangelogLast \/ MakeChangelogNotes \/ MakeChangelogAdd
  \/ MakeChangelogBefore \/ MakeChangelogCommit \/ MakeChangelogAfter
  \/ MakeRelease \/ MakeReleaseCommits \/ MakeReleaseCurrent \/ MakeReleaseVersion \/ MakeReleaseAfter
  \/ Comment \/ CommentMessage
  \/ PrBody \/ PrBodyMessage
  \/ PrStatus \/ PrStatusPost
  \/ PrCheck \/ PrCheckPost
  \/ CreateLabels \/ Label

Spec == Init /\ [][Next]_vars

----------------------------------------------------------------------------
(* The bump of a range of commits *)

\* The commits of a range
MaxRange == 3

\* The label sets of the commits of a range
Ranges == SeqsUpTo(HeadLabelSets, MaxRange)

\* Auto with its release object, and a range of commits to bump over
InitBump ==
  /\ env = <<>>
  /\ repo = <<>>
  /\ hooks = [n \in HookNames |->
                IF n = "onCreateRelease" THEN <<"Link onCreateChangelog", "Link onCreateLogParse">>
                ELSE <<>>]
  /\ config = <<"<default>">>
  /\ git = TRUE
  /\ release = TRUE
  /\ versionBump = ""
  /\ cmd = ""
  /\ opts = NoOpts
  /\ stack = <<>>
  /\ \E head \in Ranges : loc = [head |-> head, version |-> ""]
  /\ rv = Undefined
  /\ calls = <<>>
  /\ result = ""

\* The bump of the range is calculated, as canary does for HEAD^..HEAD: versionBump
\* holds what calculateSemVerBump answers, loc.version what canary makes of it
CalculateBump ==
  /\ cmd = ""
  /\ cmd' = "calculateSemVerBump"
  /\ versionBump' = calculateSemVerBump(loc.head)
  /\ loc' = [loc EXCEPT !.version = CanaryVersionBump(loc.head)]
  /\ result' = "ok"
  /\ UNCHANGED <<env, repo, hooks, config, git, release, opts, stack, rv, calls>>

NextBump == CalculateBump

SpecBump == InitBump /\ [][NextBump]_vars

----------------------------------------------------------------------------
(* The released plugin: ReleasedLabelPlugin *)

\* The commits of one release handed to the plugin
MaxReleased == 1

ReleasedLabel == "released"       \* defaultOptions.label
ReleasedContext == "released"     \* the context of the plugin's comments

\* A text, as far as the plugin reads it: its clauses, each a word followed by a list
\* of `#n` references separated by ", "
Clause(word, refs) == [word |-> word, refs |-> refs]
NoText == <<>>                                   \* names no issue
FixesTwo == <<Clause("Fixes", <<10, 11>>)>>      \* "Fixes #10, #11"
ClosesOne == <<Clause("closes", <<10>>)>>        \* "closes #10"
SeeOne == <<Clause("see", <<11>>)>>              \* "see #11"
FixesOwn == <<Clause("FIXES", <<1>>)>>           \* "FIXES #1"

\* The `i` flag: the word in lower case
LowerCase(word) ==
  CASE word = "Fixes" -> "fixes" [] word = "FIXES" -> "fixes" [] OTHER -> word

ClosingWords == { "close", "closes", "closed", "fix", "fixes", "fixed",
                  "resolve", "resolves", "resolved" }

IsClosing(clause) == LowerCase(clause.word) \in ClosingWords /\ clause.refs # <<>>

\* message.match(closeIssue): the clauses a closing word opens, each with its whole list
closeIssue(message) == SelectSeq(message, IsClosing)

RECURSIVE Flatten(_)
Flatten(ss) == IF ss = <<>> THEN <<>> ELSE Head(ss) \o Flatten(Tail(ss))

\* issue.match(/#(\d+)/i): the first reference of a match
IssueNumber(match) == Head(match.refs)

\* The issues addReleased collects from its messages
Issues(messages) ==
  LET matches == Flatten([i \in 1..Len(messages) |-> closeIssue(messages[i])])
  IN  [i \in 1..Len(matches) |-> IssueNumber(matches[i])]

\* The newVersion handed to afterRelease
ReleasedVersions == { "", "v1.0.1", "v1.0.1-canary.1.7" }

\* A variant of isCanary for which no version is a canary, against which the
\* properties are tried
isCanaryNever(version) == FALSE

\* version.match('canary')
isCanary(version) ==
  \E a \in {"", "v1.0.1-"}, b \in {"", ".1.7"} : version = a \o "canary" \o b

\* createReleasedComment(isIssue, version)
createReleasedComment(isIssue, version) ==
  ":rocket: " \o (IF isIssue THEN "Issue" ELSE "PR") \o " was released in " \o version \o " :rocket:"

\* A variant of LabelMissing that always adds, against which the properties are tried
LabelMissingAlways(labels, label) == TRUE

\* !labels.includes(label)
LabelMissing(labels, label) == \A i \in 1..Len(labels) : labels[i] # label

\* A variant of Locks that always locks, against which the properties are tried
LocksAlways(lockIssues, version) == TRUE

\* this.options.lockIssues && !isCanary(newVersion)
Locks(lockIssues, version) == lockIssues /\ ~isCanary(version)

\* The commits of a release: pullRequest 0 for a commit with none
PullRequests == {1, 2}
ExtendedCommits ==
  { [subject |-> NoText, pullRequest |-> pr, labels |-> {}] : pr \in PullRequests }
    \cup { [subject |-> t, pullRequest |-> 0, labels |-> l] :
             t \in {NoText, ClosesOne}, l \in {{}, {"skip-release"}} }
ExtendedLists == SeqsUpTo(ExtendedCommits, MaxReleased)

\* What the platform answers: the lines of a pull request's body, the messages of its
\* commits, the labels of a pull request or issue
PrBodies == { <<FixesTwo>>, <<FixesOwn>>, <<SeeOne>> }
PrCommits == { <<>>, <<ClosesOne>> }
NoLabels == <<>>

\* auto.options, as far as the plugin reads them
AutoOptions == { [has |-> FALSE, dryRun |-> FALSE], [has |-> TRUE, dryRun |-> FALSE],
                 [has |-> TRUE, dryRun |-> TRUE] }

\* The function f with n mapped to v
With(f, n, v) == [m \in (DOMAIN f) \cup {n} |-> IF m = n THEN v ELSE f[m]]
\* f at n, d where f has no n
AtOr(f, n, d) == IF n \in DOMAIN f THEN f[n] ELSE d

\* The calls of addReleased and of the announcements it starts: one task for each commit
\* (issue 0) and one for each issue it collects
TaskId(commit, issue) == [commit |-> commit, issue |-> issue]
Task(target, isIssue, pc, messages) ==
  [target |-> target, isIssue |-> isIssue, pc |-> pc, messages |-> messages, did |-> <<>>]

\* issues.map(...): the announcements of the issues of commit i
IssueTasks(i, issues) ==
  [id \in { TaskId(i, k) : k \in 1..Len(issues) } |-> Task(issues[id.issue], TRUE, "comment", <<>>)]

\* f and g over disjoint domains
Both(f, g) == [x \in (DOMAIN f) \cup (DOMAIN g) |-> IF x \in DOMAIN f THEN f[x] ELSE g[x]]

RECURSIVE Started(_, _)
\* commits.map(addReleased), from commit i on: a commit of a pull request announces
\* it first, a commit of none goes on to the issues of its subject
Started(commits, i) ==
  IF i > Len(commits) THEN <<>>
  ELSE LET c == commits[i]
           own == IF c.pullRequest # 0
                  THEN [id \in {TaskId(i, 0)} |-> Task(c.pullRequest, FALSE, "comment", <<c.subject>>)]
                  ELSE Both([id \in {TaskId(i, 0)} |-> Task(0, FALSE, "wait", <<c.subject>>)],
                            IssueTasks(i, Issues(<<c.subject>>)))
       IN  Both(own, Started(commits, i + 1))

\* Promise.all: rejected once a call has rejected, resolved when every call has ended
Settled(tasks) ==
  IF \E id \in DOMAIN tasks : tasks[id].pc = "failed" THEN "error"
  ELSE IF \A id \in DOMAIN tasks : tasks[id].pc \in {"wait", "done"} THEN "ok"
  ELSE ""

\* Auto after loadConfig with the released plugin, which has its options
InitReleased ==
  /\ env = <<>>
  /\ repo = [comments |-> <<>>, labels |-> <<>>, bodies |-> <<>>, prCommits |-> <<>>, locked |-> {}]
  /\ hooks = ApplyPlugins([n \in HookNames |->
                             IF n = "onCreateRelease"
                             THEN <<"Link onCreateChangelog", "Link onCreateLogParse">> ELSE <<>>],
                          <<"released">>)
  /\ config = <<"released">>
  /\ git = TRUE
  /\ release = TRUE
  /\ versionBump = ""
  /\ cmd = ""
  /\ opts = NoOpts
  /\ stack = <<>>
  /\ \E lockIssues \in BOOLEAN :
       loc = [lockIssues |-> lockIssues, newVersion |-> "", dryRun |-> FALSE, commits |-> <<>>,
              tasks |-> <<>>, raced |-> {}]
  /\ rv = Undefined
  /\ calls = <<>>
  /\ result = ""

\* A variant of Announces that does not look at the labels of the first commit, against
\* which the properties are tried
AnnouncesSkipped(newVersion, options, commits) ==
  /\ Truthy(newVersion)
  /\ ~(options.has /\ options.dryRun)
  /\ commits # <<>>

\* The handler of afterRelease goes on to the announcements: there is a new version, no
\* dry run, a first commit, and none of its labels is a skip-release label
Announces(newVersion, options, commits) ==
  /\ Truthy(newVersion)
  /\ ~(options.has /\ options.dryRun)
  /\ commits # <<>>
  /\ commits[1].labels \cap SkipReleaseLabels = {}

\* The handler of afterRelease up to its first await
AfterRelease ==
  /\ cmd = ""
  /\ \E newVersion \in ReleasedVersions, options \in AutoOptions, commits \in ExtendedLists :
       LET tasks == IF Announces(newVersion, options, commits) THEN Started(commits, 1) ELSE <<>>
       IN  /\ loc' = [loc EXCEPT !.newVersion = newVersion, !.dryRun = options.dryRun,
                                 !.commits = commits, !.tasks = tasks]
           /\ result' = Settled(tasks)
  /\ cmd' = "afterRelease"
  /\ UNCHANGED <<env, repo, hooks, config, git, release, versionBump, opts, stack, rv, calls>>

\* Where a call goes on after addCommentAndLabel has returned
AfterLabel(t) ==
  IF ~t.isIssue THEN "getPullRequest"
  ELSE IF Locks(loc.lockIssues, loc.newVersion) THEN "lockIssue" ELSE "done"

\* Task id makes the call e and goes on at pc
Step(id, e, pc) ==
  /\ loc' = [loc EXCEPT !.tasks[id].did = Append(@, e), !.tasks[id].pc = pc]
  /\ result' = IF result = "error" THEN result ELSE Settled(loc'.tasks)
  /\ rv' = rv

\* The call e of task id rejects: so do addReleased and the handler
Rejects(id, e) ==
  /\ loc' = [loc EXCEPT !.tasks[id].did = Append(@, e), !.tasks[id].pc = "failed"]
  /\ result' = "error"
  /\ rv' = IF result = "error" THEN rv ELSE [defined |-> FALSE, error |-> e.n]

\* addCommentAndLabel: auto.comment({ message, pr, context: 'released' })
ReleasedComment ==
  /\ \E id \in DOMAIN loc.tasks :
       LET t == loc.tasks[id]
           message == createReleasedComment(t.isIssue, loc.newVersion)
           e == Ev("git", "createComment", <<message, t.target, ReleasedContext>>)
       IN  /\ t.pc = "comment"
           /\ \/ /\ repo' = [repo EXCEPT !.comments = createComment(@, message, t.target, ReleasedContext)]
                 /\ Step(id, e, IF isCanary(loc.newVersion) THEN AfterLabel(t) ELSE "getLabels")
              \/ /\ repo' \in { repo, [repo EXCEPT !.comments = deleteComment(@, t.target, ReleasedContext)] }
                 /\ Rejects(id, e)
  /\ UNCHANGED <<env, hooks, config, git, release, versionBump, cmd, opts, stack, calls>>

\* addCommentAndLabel: auto.git.getLabels(prOrIssue)
ReleasedGetLabels ==
  /\ \E id \in DOMAIN loc.tasks :
       LET t == loc.tasks[id]
           labels == AtOr(repo.labels, t.target, NoLabels)
           e == Ev("git", "getLabels", <<t.target, labels>>)
           racing == \E other \in DOMAIN loc.tasks :
                       /\ other # id
                       /\ loc.tasks[other].pc = "addLabel"
                       /\ loc.tasks[other].target = t.target
       IN  /\ t.pc = "getLabels"
           /\ \/ /\ loc' = [loc EXCEPT
                              !.tasks[id].did = Append(@, e),
                              !.tasks[id].pc = IF LabelMissing(labels, ReleasedLabel)
                                               THEN "addLabel" ELSE AfterLabel(t),
                              !.raced = @ \cup (IF racing THEN {t.target} ELSE {})]
                 /\ result' = IF result = "error" THEN result ELSE Settled(loc'.tasks)
                 /\ rv' = rv
              \/ Rejects(id, e)
  /\ UNCHANGED <<env, repo, hooks, config, git, release, versionBump, cmd, opts, stack, calls>>

\* addCommentAndLabel: auto.git.addLabelToPr(prOrIssue, label)
ReleasedAddLabel ==
  /\ \E id \in DOMAIN loc.tasks :
       LET t == loc.tasks[id]
           e == Ev("git", "addLabelToPr", <<t.target, ReleasedLabel>>)
       IN  /\ t.pc = "addLabel"
           /\ \/ /\ repo' = [repo EXCEPT !.labels =
                               With(@, t.target, Append(AtOr(@, t.target, NoLabels), ReleasedLabel))]
                 /\ Step(id, e, AfterLabel(t))
              \/ Rejects(id, e) /\ UNCHANGED repo
  /\ UNCHANGED <<env, hooks, config, git, release, versionBump, cmd, opts, stack, calls>>

\* addReleased: auto.git.getPullRequest(number), the lines of the body are messages
ReleasedGetPullRequest ==
  /\ \E id \in DOMAIN loc.tasks :
       LET t == loc.tasks[id]
           e == Ev("git", "getPullRequest", <<t.target>>)
       IN  /\ t.pc = "getPullRequest"
           /\ \/ \E b \in Read(repo.bodies, t.target, PrBodies) :
                   /\ repo' = [repo EXCEPT !.bodies = b]
                   /\ loc' = [loc EXCEPT !.tasks[id].did = Append(@, e),
                                         !.tasks[id].pc = "getCommitsForPR",
                                         !.tasks[id].messages = @ \o b[t.target]]
                   /\ UNCHANGED <<result, rv>>
              \/ Rejects(id, e) /\ UNCHANGED repo
  /\ UNCHANGED <<env, hooks, config, git, release, versionBump, cmd, opts, stack, calls>>

\* addReleased: auto.git.getCommitsForPR(number), their messages are messages; then the
\* issues are collected and their announcements started
ReleasedGetCommitsForPR ==
  /\ \E id \in DOMAIN loc.tasks :
       LET t == loc.tasks[id]
           e == Ev("git", "getCommitsForPR", <<t.target>>)
       IN  /\ t.pc = "getCommitsForPR"
           /\ \/ \E c \in Read(repo.prCommits, t.target, PrCommits) :
                   LET messages == t.messages \o c[t.target]
                       tasks == [loc.tasks EXCEPT ![id].did = Append(@, e), ![id].pc = "wait",
                                                  ![id].messages = messages]
                       all == Both(tasks, IssueTasks(id.commit, Issues(messages)))
                   IN  /\ repo' = [repo EXCEPT !.prCommits = c]
                       /\ loc' = [loc EXCEPT !.tasks = all]
                       /\ result' = IF result = "error" THEN result ELSE Settled(all)
                       /\ rv' = rv
              \/ Rejects(id, e) /\ UNCHANGED repo
  /\ UNCHANGED <<env, hooks, config, git, release, versionBump, cmd, opts, stack, calls>>

\* addReleased: auto.git.lockIssue(issue)
ReleasedLockIssue ==
  /\ \E id \in DOMAIN loc.tasks :
       LET t == loc.tasks[id]
           e == Ev("git", "lockIssue", <<t.target>>)
       IN  /\ t.pc = "lockIssue"
           /\ \/ /\ repo' = [repo EXCEPT !.locked = @ \cup {t.target}]
                 /\ Step(id, e, "done")
              \/ Rejects(id, e) /\ UNCHANGED repo
  /\ UNCHANGED <<env, hooks, config, git, release, versionBump, cmd, opts, stack, calls>>

NextReleased ==
  \/ AfterRelease
  \/ ReleasedComment \/ ReleasedGetLabels \/ ReleasedAddLabel
  \/ ReleasedGetPullRequest \/ ReleasedGetCommitsForPR \/ ReleasedLockIssue

\* One afterRelease of the released plugin
SpecReleased == InitReleased /\ [][NextReleased]_vars

----------------------------------------------------------------------------
(* Properties: what they read of a state *)

IsCall(e, k, n) == e.k = k /\ e.n = n
CallsOf(k, n) == { i \in 1..Len(calls) : IsCall(calls[i], k, n) }
Called(k, n) == CallsOf(k, n) # {}
LastCallIs(k, n) == calls # <<>> /\ IsCall(calls[Len(calls)], k, n)

\* The command was given dryRun (not given dryRun), once the command has read the option
DryRun == "dryRun" \in DOMAIN opts /\ opts.dryRun
NotDryRun == "dryRun" \in DOMAIN opts /\ ~opts.dryRun

\* shipit has chosen its path: the CI context is no pull request and its branch is the
\* base branch (trunk), or it is not (canary)
PathChosen == cmd = "shipit" /\ {"isPr", "branch"} \subseteq DOMAIN env /\ Called("hook", "beforeShipIt")
TrunkContext == env.isPr # "true" /\ env.branch = "master"
OnTrunk == PathChosen /\ TrunkContext
OnCanaryPath == PathChosen /\ ~TrunkContext

\* The bump getVersion computed is 'no release warranted'
NoReleaseBump == "bump" \in DOMAIN repo /\ repo.bump = NoVersion

\* The canary hook reported a structured failure
StructuredFailure ==
  \E i \in CallsOf("hook", "canary") :
    i < Len(calls) /\ calls[i + 1] = Ev("log", "warn", <<"canary failed">>)

\* The stages of a release on the trunk, 0 for a call that is none of them
StageOf(e) ==
  CASE IsCall(e, "exec", "git commit")    -> 1
    [] IsCall(e, "hook", "version")       -> 2
    [] IsCall(e, "hook", "afterVersion")  -> 3
    [] IsCall(e, "hook", "publish")       -> 4
    [] IsCall(e, "hook", "afterPublish")  -> 5
    [] IsCall(e, "git", "publish")        -> 6
    [] IsCall(e, "hook", "afterRelease")  -> 7
    [] IsCall(e, "hook", "afterShipIt")   -> 8
    [] OTHER -> 0

\* What a failure of each stage is thrown as
StageErrors == << "git commit", "version", "afterVersion", "publish", "afterPublish",
                  "git.publish", "afterRelease", "afterShipIt" >>

StagesDone == { StageOf(calls[i]) : i \in 1..Len(calls) } \ {0}

\* The stages of the calls, in the order of the calls
IsStage(e) == StageOf(e) # 0
StagesCalled == LET staged == SelectSeq(calls, IsStage)
                IN  [k \in 1..Len(staged) |-> StageOf(staged[k])]

\* The frames of the two paths of shipit
CanaryFrames == { "canary", "canary_head", "canary_sha", "canary_hook", "canary_published",
                  "canary_tag", "canary_commits", "prBody", "prBody_message" }
TrunkFrames == { "publishLatest", "publishLatest_version", "publishLatest_commits",
                 "publishLatest_hooks", "publishLatest_release", "publishLatest_released",
                 "publishLatest_dry", "getVersion", "getVersion_bump", "makeChangelog",
                 "makeChangelog_last", "makeChangelog_notes", "makeChangelog_add",
                 "makeChangelog_before", "makeChangelog_commit", "makeChangelog_after",
                 "makeRelease", "makeRelease_commits", "makeRelease_current",
                 "makeRelease_version", "makeRelease_after", "setGitUser",
                 "setGitUser_author", "setGitUser_email", "setGitUser_name",
                 "getCurrentVersion" } \cup PublishFrames
FramesOnStack == { stack[i] : i \in 1..Len(stack) }

----------------------------------------------------------------------------
(* C1 *)

\* C1: in a shipit on the trunk that is no dry run the stages -- changelog commit,
\* version, afterVersion, publish, afterPublish, release creation, afterRelease,
\* afterShipIt -- are called in this order, each one at most once and only after the
\* stage before it has resolved (afterShipIt also follows afterPublish directly when no
\* release is created); a run that creates the release and ends well has run all eight;
\* and when a stage fails the run is over and no later stage was started.
C1_StagesInOrder ==
  (OnTrunk /\ NotDryRun) =>
    /\ \A k \in 1..(Len(StagesCalled) - 1) : StagesCalled[k] < StagesCalled[k + 1]
    /\ \A s \in StagesDone :
         /\ (s \in 2..7) => (s - 1) \in StagesDone
         /\ (s = 8) => (5 \in StagesDone /\ (6 \in StagesDone => 7 \in StagesDone))
    /\ (result = "ok" /\ Called("git", "publish")) => StagesDone = 1..8
    /\ \A s \in 1..8 :
         (result = "error" /\ rv.error = StageErrors[s])
           => /\ stack = <<>>
              /\ StageOf(calls[Len(calls)]) = s
              /\ \A t \in StagesDone : t <= s

C1_Witness ==
  OnTrunk /\ NotDryRun /\ result = "ok" /\ StagesDone = 1..8 /\ LastCallIs("hook", "afterShipIt")

----------------------------------------------------------------------------
(* C2 *)

\* The suffix C2 states for a request number pr and a build id build ("" for unknown)
C2_Suffix(pr, build) ==
  IF pr # "" /\ build # "" THEN "." \o pr \o "." \o build
  ELSE IF pr # "" THEN "." \o pr \o "." \o ShortSha
  ELSE IF build # "" THEN "." \o build \o "." \o ShortSha
  ELSE "." \o ShortSha

\* C2: the suffix handed to the canary hook is .{pr}.{build} when the request number and
\* the build id are both known, .{the known one}.{shortSha} when one is, .{shortSha} when
\* none is; the short sha is looked up (and appended) exactly when one of them is unknown.
C2_CanarySuffix ==
  \A i \in CallsOf("hook", "canary") :
    /\ calls[i].a[2] = C2_Suffix(loc.pr, loc.build)
    /\ Called("git", "getSha") <=> (loc.pr = "" \/ loc.build = "")

C2_Witness ==
  /\ Called("hook", "canary")
  /\ loc.pr # "" /\ loc.build = ""
  /\ calls[Len(calls)].a[2] = "." \o loc.pr \o "." \o ShortSha

----------------------------------------------------------------------------
(* C3 *)

\* The request number of a canary: the pr option, else the CI environment's pr
C3_Request ==
  IF opts.pr # 0 THEN ToStr(opts.pr)
  ELSE IF InEnv(env, "pr") /\ (InEnv(env, "build") \/ InEnv(env, "commit")) THEN EnvVal(env, "pr")
  ELSE ""

\* No build id is supplied, by the build option or by a build value of the CI environment
C3_NoBuildSupplied == opts.build = "" /\ EnvVal(env, "build") = ""

\* The CI environment has a pr and a commit but no build key
C3_CommitAsBuild == InEnv(env, "pr") /\ ~InEnv(env, "build") /\ InEnv(env, "commit")

\* C3 as stated: with a request number known and no build id supplied the suffix is
\* .{requestNumber}.{shortSha}, however the request number became known.
C3_AsStated ==
  \A i \in CallsOf("hook", "canary") :
    (C3_Request # "" /\ C3_NoBuildSupplied)
      => calls[i].a[2] = "." \o C3_Request \o "." \o ShortSha

\* C3, amended: with a request number known and no build id supplied the suffix is
\* .{requestNumber}.{shortSha}, unless the CI environment has a pr key and a commit key
\* but no build key: then its commit is the build id, the suffix is
\* .{requestNumber}.{commit} and no short sha is looked up.
C3_ShortShaUnlessCommit ==
  \A i \in CallsOf("hook", "canary") :
    (C3_Request # "" /\ C3_NoBuildSupplied)
      => IF C3_CommitAsBuild
         THEN calls[i].a[2] = "." \o C3_Request \o "." \o EnvVal(env, "commit")
              /\ ~Called("git", "getSha")
         ELSE calls[i].a[2] = "." \o C3_Request \o "." \o ShortSha

C3_Witness ==
  /\ Called("hook", "canary")
  /\ C3_Request # "" /\ C3_NoBuildSupplied /\ C3_CommitAsBuild
  /\ opts.pr = 0
  /\ calls[Len(calls)].a[2] = "." \o EnvVal(env, "pr") \o "." \o FullSha

----------------------------------------------------------------------------
(* C4 *)

\* The canary command runs (alone or for shipit) and the canary hook has no tap
C4_NoHandler ==
  /\ cmd = "canary" \/ OnCanaryPath
  /\ git /\ release
  /\ Len(hooks["canary"]) = 0

\* C4: with no handler on the canary hook the canary command exits before anything is
\* asked of the commit log, the git client, the hosting platform or a hook: its only
\* call is the error it logs (after shipit's beforeShipIt), and it ends by a fatal exit.
C4_ExitBeforeAnyCall ==
  C4_NoHandler =>
    /\ \A i \in 1..Len(calls) :
         \/ calls[i].k = "log"
         \/ cmd = "shipit" /\ i = 1 /\ IsCall(calls[i], "hook", "beforeShipIt")
    /\ result \in {"", "exit"}
    /\ stack \in { <<"canary">>, <<"canary", "shipit_after">>, <<>> }
    /\ (stack = <<>>) => (result = "exit" /\ LastCallIs("log", "error"))

C4_Witness ==
  cmd = "canary" /\ C4_NoHandler /\ result = "exit" /\ Len(calls) = 1

----------------------------------------------------------------------------
(* C5 *)

\* C5: once the canary hook has returned a structured failure the message is logged
\* as a warning and that is the last call of the run -- no PR body update, no call to the
\* hosting client or the commit log, no hook -- and the command ends without an error.
C5_StructuredFailureEnds ==
  StructuredFailure =>
    /\ LastCallIs("log", "warn")
    /\ IsCall(calls[Len(calls) - 1], "hook", "canary")
    /\ ~Called("git", "addToPrBody")
    /\ result \in {"", "ok"}
    /\ (cmd = "canary") => (result = "ok" /\ stack = <<>> /\ ~rv.defined)
    /\ (stack = <<>>) => result = "ok"

C5_Witness ==
  cmd = "shipit" /\ StructuredFailure /\ result = "ok"

----------------------------------------------------------------------------
(* C6 *)

\* afterShipIt is called once, as the last call, with the version and the commits
C6_AfterShipItLast ==
  /\ Cardinality(CallsOf("hook", "afterShipIt")) = 1
  /\ LastCallIs("hook", "afterShipIt")
  /\ calls[Len(calls)].a = << IF OnTrunk THEN loc.mrNew ELSE loc.newVersion, repo.commits >>

\* C6 as stated: every shipit that ends well and was not ended by the 'no release
\* warranted' bump has fired afterShipIt exactly once, as its last stage, with the version
\* and the commit list -- a canary with a structured failure included.
C6_AsStated ==
  (cmd = "shipit" /\ result = "ok" /\ ~(OnTrunk /\ NoReleaseBump)) => C6_AfterShipItLast

\* C6, amended: every shipit that ends well and was ended neither by the 'no release
\* warranted' bump nor by a structured failure of the canary hook has fired afterShipIt
\* exactly once, as its last stage, with the version (if any) and the commit list; after
\* a structured failure of the canary hook afterShipIt is not fired.
C6_AfterShipItUnlessFailure ==
  (cmd = "shipit" /\ result = "ok" /\ ~(OnTrunk /\ NoReleaseBump)) =>
    IF StructuredFailure THEN ~Called("hook", "afterShipIt") ELSE C6_AfterShipItLast

C6_Witness ==
  /\ OnTrunk /\ NotDryRun /\ result = "ok"
  /\ ~Called("git", "publish")
  /\ C6_AfterShipItLast

----------------------------------------------------------------------------
(* C7 *)

\* What C7 rules out: git identity setup, the changelog, the hooks around it, the
\* publishing hooks, the release and the hooks after it
C7_Ruled(e) ==
  \/ IsCall(e, "exec", "git config") \/ IsCall(e, "exec", "git commit")
  \/ IsCall(e, "release", "generateReleaseNotes") \/ IsCall(e, "release", "addToChangelog")
  \/ IsCall(e, "git", "publish")
  \/ e.k = "hook" /\ e.n \in { "getAuthor", "beforeCommitChangelog", "afterAddToChangelog",
                               "version", "afterVersion", "publish", "afterPublish",
                               "afterRelease", "afterShipIt" }

\* C7: on the trunk path of shipit, when the bump is 'no release warranted', the run
\* ends well and none of these has happened: git identity setup, changelog generation
\* or commit, beforeCommitChangelog, afterAddToChangelog, version, afterVersion,
\* publish, afterPublish, release creation, afterRelease, afterShipIt.
C7_NoReleaseNothingRuns ==
  (OnTrunk /\ NoReleaseBump) =>
    /\ \A i \in 1..Len(calls) : ~C7_Ruled(calls[i])
    /\ result \in {"", "ok"}
    /\ (stack = <<>>) => result = "ok"
    /\ FramesOnStack \subseteq {"getVersion_bump", "publishLatest_version", "shipit_after"}

C7_Witness ==
  OnTrunk /\ NoReleaseBump /\ result = "ok" /\ LastCallIs("log", "info")

----------------------------------------------------------------------------
(* C8 *)

\* C8 as stated: in a release that is no dry run, a version equal to the last release
\* is never handed to the hosting client's publish call.
C8_AsStated ==
  (cmd = "release" /\ NotDryRun) =>
    \A i \in CallsOf("git", "publish") : calls[i].a[2] # loc.mrLast

----------------------------------------------------------------------------
(* C9 *)

\* The calls only the trunk path makes, and those only the canary path makes
C9_TrunkOnly(e) ==
  \/ IsCall(e, "git", "publish") \/ IsCall(e, "git", "getLatestRelease")
  \/ IsCall(e, "release", "getSemverBump")
  \/ e.k = "hook" /\ e.n \in {"version", "afterVersion", "publish", "afterPublish", "afterRelease"}
C9_CanaryOnly(e) ==
  \/ IsCall(e, "hook", "canary") \/ IsCall(e, "git", "getSha")
  \/ IsCall(e, "git", "addToPrBody") \/ IsCall(e, "release", "getCommits")
  \/ e = Ev("release", "getCommitsInRelease", <<"HEAD^">>)

\* C9: shipit takes the trunk path iff the CI context is no pull request and its branch
\* is the base branch, and the canary path otherwise, never both; on the canary path
\* version, afterVersion, publish, afterPublish, release creation and afterRelease are
\* never called.
C9_OnePath ==
  PathChosen =>
    /\ TrunkContext =>
         /\ FramesOnStack \cap CanaryFrames = {}
         /\ \A i \in 1..Len(calls) : ~C9_CanaryOnly(calls[i])
         /\ (result = "") => (FramesOnStack \cap TrunkFrames # {} \/ stack = <<"shipit_after">>)
    /\ ~TrunkContext =>
         /\ FramesOnStack \cap TrunkFrames = {}
         /\ \A i \in 1..Len(calls) : ~C9_TrunkOnly(calls[i])
         /\ (result = "") => (FramesOnStack \cap CanaryFrames # {} \/ stack = <<"shipit_after">>)

C9_Witness ==
  /\ PathChosen /\ env.isPr = "true" /\ env.branch = "master"
  /\ Called("hook", "canary") /\ result = "ok"

----------------------------------------------------------------------------
(* C10 *)

\* The side effects C10 rules out of a dry run
C10_Mutating(e) ==
  \/ IsCall(e, "release", "addToChangelog")
  \/ IsCall(e, "exec", "git commit")
  \/ IsCall(e, "exec", "git config") /\ Len(e.a) = 2
  \/ e.k = "hook" /\ e.n \in {"version", "afterVersion", "publish", "afterPublish", "canary"}
  \/ e.k = "git" /\ e.n \in { "publish", "createComment", "editComment", "deleteComment",
                             "addToPrBody", "createStatus" }

\* C10 as stated: a command given dryRun makes no mutating call -- no changelog write,
\* git commit, git config write, publishing or canary hook, release, comment, PR body
\* update or status.
C10_AsStated ==
  (cmd \in {"shipit", "changelog", "release", "comment", "prBody", "prStatus", "prCheck"} /\ DryRun)
    => \A i \in 1..Len(calls) : ~C10_Mutating(calls[i])

----------------------------------------------------------------------------
(* C11 *)

\* loadConfig has run and no command yet: `calls` is the log of loadConfig
Loaded == cmd = "" /\ config # <<>>

\* The first call of kind k named n
FirstCall(k, n) == CHOOSE i \in CallsOf(k, n) : \A j \in CallsOf(k, n) : i <= j

\* The configuration the loader read, and the one handed to beforeRun and kept as
\* Auto.config
C11_LoadedConfig == calls[FirstCall("config", "loadConfig")].a[1]
C11_Config == calls[FirstCall("hook", "beforeRun")].a[1]

\* C11 as stated: modifyConfig is applied before beforeRun fires, and the configuration
\* handed to beforeRun is the loaded one threaded through the modifyConfig handlers of
\* the plugins it names, in registration order.
C11_AsStated ==
  Loaded =>
    /\ FirstCall("hook", "modifyConfig") < FirstCall("hook", "beforeRun")
    /\ C11_Config = Waterfall(hooks["modifyConfig"], C11_LoadedConfig)

----------------------------------------------------------------------------
(* C12 *)

\* The hook registrations as loadConfig leaves them
C12_Registered ==
  ApplyPlugins([n \in HookNames |->
                  IF n = "onCreateRelease"
                  THEN <<"Link onCreateChangelog", "Link onCreateLogParse">> ELSE <<>>],
               PluginsToLoad(config))

\* C12 as stated: once loadConfig has finished, running a command adds no handler to
\* and removes none from any hook.
C12_AsStated == (cmd # "") => hooks = C12_Registered

----------------------------------------------------------------------------
(* C13 *)

\* The pull request and the context the running comment call addresses
C13_Pr == getPrNumberFromEnv(env, loc.call.pr)
C13_Tracked(pr, context) ==
  IF "comments" \in DOMAIN repo THEN TrackedIn(repo.comments, pr, context) ELSE {}

\* C13: whatever comment calls have run (create, edit, delete, delete with a message,
\* none a dry run), no pull request carries two tracked comments of one context; and
\* when a call with a message has succeeded, the pull request carries exactly one
\* tracked comment of the context, holding that message -- so two identical calls with
\* a message leave exactly one.
C13_OneTrackedComment ==
  /\ \A pr \in 1..(MaxPr + MaxEnvPr), context \in {"default"} :
       Cardinality(C13_Tracked(pr, context)) <= 1
  /\ (cmd = "comment" /\ result = "ok" /\ loc.call.message # "")
       => /\ Cardinality(C13_Tracked(C13_Pr, loc.call.context)) = 1
          /\ \A i \in C13_Tracked(C13_Pr, loc.call.context) :
               Thread(repo.comments, C13_Pr)[i].body = loc.call.message

\* Two identical plain calls have succeeded on a pull request that carried a tracked
\* comment before, and it carries one
C13_Witness ==
  /\ cmd = "comment" /\ result = "ok" /\ loc.nth = 2
  /\ ~loc.call.edit /\ ~loc.call.delete /\ loc.call.message = "hello"
  /\ C13_Pr = 1
  /\ Cardinality(CallsOf("git", "createComment")) = 2
  /\ \A i, j \in CallsOf("git", "createComment") : calls[i].a = calls[j].a
  /\ Thread(repo.comments, 1) = <<[context |-> "default", body |-> "hello"]>>

----------------------------------------------------------------------------
(* C14 *)

\* The calls the announcements have made: task id and position in its log
ReleasedCalls ==
  { x \in UNION { {id} \X (1..Len(loc.tasks[id].did)) : id \in DOMAIN loc.tasks } : TRUE }
ReleasedCall(x) == loc.tasks[x[1]].did[x[2]]
\* The calls named n, and those on target t
ReleasedCallsOf(n) == { x \in ReleasedCalls : ReleasedCall(x).n = n }
ReleasedCallsOn(n, t) == { x \in ReleasedCallsOf(n) : ReleasedCall(x).a[1] = t }

\* The calls that were answered: a rejected call is the last of a failed task
ReleasedAnswered(x) == ~(loc.tasks[x[1]].pc = "failed" /\ x[2] = Len(loc.tasks[x[1]].did))

\* The targets of the model
Targets == PullRequests \cup {10, 11}

\* The label is among the labels
C14_Carries(labels) == \E j \in 1..Len(labels) : labels[j] = ReleasedLabel
\* How often the target carries the released label
C14_Count(t) ==
  Cardinality({ j \in 1..Len(AtOr(repo.labels, t, NoLabels)) : repo.labels[t][j] = ReleasedLabel })

\* C14: the label step adds the released label only right after it has read the labels
\* of the same target and found it absent, and not when it found it present; on a
\* target whose label steps ran one after the other at most one add-label call is
\* answered and the target never carries the label twice.
C14_LabelOnce ==
  /\ \A x \in ReleasedCallsOf("addLabelToPr") :
       /\ x[2] > 1
       /\ LET read == loc.tasks[x[1]].did[x[2] - 1]
          IN  /\ read.n = "getLabels"
              /\ read.a[1] = ReleasedCall(x).a[1]
              /\ ~C14_Carries(read.a[2])
  /\ \A x \in ReleasedCallsOf("getLabels") :
       (C14_Carries(ReleasedCall(x).a[2]) /\ x[2] < Len(loc.tasks[x[1]].did))
         => loc.tasks[x[1]].did[x[2] + 1].n # "addLabelToPr"
  /\ \A t \in Targets \ loc.raced :
       /\ Cardinality({ x \in ReleasedCallsOn("addLabelToPr", t) : ReleasedAnswered(x) }) <= 1
       /\ C14_Count(t) <= 1

\* The label step has run twice on pull request 1, one after the other (for the pull
\* request, then for the issue its body names), and added the label once
C14_Witness ==
  /\ result = "ok"
  /\ 1 \notin loc.raced
  /\ Cardinality(ReleasedCallsOn("getLabels", 1)) = 2
  /\ Cardinality(ReleasedCallsOn("addLabelToPr", 1)) = 1
  /\ C14_Count(1) = 1

----------------------------------------------------------------------------
(* C15 *)

\* The calls addReleased made for the commits, and the announcements of the issues of
\* commit i
CommitTasks == { id \in DOMAIN loc.tasks : id.issue = 0 }
IssueTasksOf(i) == { id \in DOMAIN loc.tasks : id.commit = i /\ id.issue # 0 }

\* Every `#n` that follows a closing word in the messages, each number of a list
RECURSIVE C15_AllRefs(_)
C15_AllRefs(messages) ==
  IF messages = <<>> THEN {}
  ELSE LET m == Head(messages)
           closing == { j \in 1..Len(m) : IsClosing(m[j]) }
       IN  UNION { { m[j].refs[k] : k \in 1..Len(m[j].refs) } : j \in closing }
             \cup C15_AllRefs(Tail(messages))

\* The target has the release comment and the released label
C15_Announced(t) ==
  /\ TrackedIn(repo.comments, t, ReleasedContext) # {}
  /\ C14_Carries(AtOr(repo.labels, t, NoLabels))

\* C15 as stated: when the handler has resolved for a release that is no canary, the
\* issues announced for a commit are all the `#n` references that follow a closing word
\* in its messages, every number of a comma-separated list included, and each of them
\* has the release comment and the released label.
C15_AsStated ==
  (result = "ok" /\ ~isCanary(loc.newVersion)) =>
    \A id \in CommitTasks :
      /\ { loc.tasks[x].target : x \in IssueTasksOf(id.commit) } = C15_AllRefs(loc.tasks[id].messages)
      /\ \A n \in C15_AllRefs(loc.tasks[id].messages) : C15_Announced(n)

----------------------------------------------------------------------------
(* C16 *)

\* The released version is the canary version of the model
C16_Canary == cmd = "afterRelease" /\ loc.newVersion = "v1.0.1-canary.1.7"

\* The announcements: the calls for commits of a pull request and for issues
C16_Announcements == { id \in DOMAIN loc.tasks : loc.tasks[id].target # 0 }

\* C16: for a canary version the plugin never reads or adds a label and never locks an
\* issue, whatever the commits and the lockIssues option; and when the handler has
\* resolved, the release comment has been posted on every pull request and every
\* collected issue.
C16_CanaryCommentsOnly ==
  C16_Canary =>
    /\ ReleasedCallsOf("getLabels") = {}
    /\ ReleasedCallsOf("addLabelToPr") = {}
    /\ ReleasedCallsOf("lockIssue") = {}
    /\ repo.labels = <<>> /\ repo.locked = {}
    /\ result = "ok" =>
         \A id \in C16_Announcements :
           LET t == loc.tasks[id]
           IN  t.did[1] = Ev("git", "createComment",
                             <<createReleasedComment(t.isIssue, loc.newVersion), t.target, ReleasedContext>>)

\* A canary release with lockIssues set has announced a pull request and an issue
C16_Witness ==
  /\ C16_Canary /\ result = "ok" /\ loc.lockIssues
  /\ \E id \in C16_Announcements : ~loc.tasks[id].isIssue
  /\ \E id \in C16_Announcements : loc.tasks[id].isIssue /\ loc.tasks[id].pc = "done"

----------------------------------------------------------------------------
(* C17 *)

\* The numbers addReleased collected as issues for commit i
C17_Collected(i) ==
  LET issues == Issues(loc.tasks[TaskId(i, 0)].messages)
  IN  { issues[k] : k \in 1..Len(issues) }

\* The comment-and-label step of the task has completed before position p of its log:
\* the comment, the label read, and the label add when the label was missing
C17_StepDone(did, n, p) ==
  /\ p >= 3
  /\ did[1].n = "createComment" /\ did[1].a[2] = n
  /\ did[2].n = "getLabels" /\ did[2].a[1] = n
  /\ IF C14_Carries(did[2].a[2]) THEN p = 3
     ELSE p = 4 /\ did[3] = Ev("git", "addLabelToPr", <<n, ReleasedLabel>>)

\* C17: a lock call for n is made only with lockIssues set, for a version that is no
\* canary, by the announcement of an issue that addReleased collected from the messages
\* (never by the announcement of a commit's own pull request), and after that
\* announcement's comment-and-label step for n has completed.
C17_LockOnlyAfter ==
  /\ \A x \in ReleasedCallsOf("lockIssue") :
       LET n == ReleasedCall(x).a[1]
       IN  /\ loc.lockIssues
           /\ loc.newVersion = "v1.0.1"
           /\ x[1].issue # 0
           /\ n = loc.tasks[x[1]].target
           /\ n \in C17_Collected(x[1].commit)
           /\ C17_StepDone(loc.tasks[x[1]].did, n, x[2])
  /\ \A n \in repo.locked : ReleasedCallsOn("lockIssue", n) # {}

\* Issue 10 has been locked after its announcement, the pull request that names it has not
C17_Witness ==
  /\ result = "ok"
  /\ repo.locked = {10}
  /\ \E id \in CommitTasks : loc.tasks[id].target = 1 /\ 10 \in C17_Collected(id.commit)
  /\ C15_Announced(10) /\ C15_Announced(1)

----------------------------------------------------------------------------
(* C18 *)

\* C18 as stated: for a commit with no pull request the plugin makes no call to the
\* hosting client -- no comment, no label read or add, no lock -- neither for the
\* commit nor for an issue its subject names.
C18_AsStated ==
  \A id \in CommitTasks :
    loc.tasks[id].target = 0 =>
      /\ loc.tasks[id].did = <<>>
      /\ \A x \in IssueTasksOf(id.commit) : loc.tasks[x].did = <<>>

----------------------------------------------------------------------------
(* C19 *)

\* Every call of kind k named n is preceded by a call of kind k2 named n2
Precedes(k2, n2, k, n) ==
  \A i \in CallsOf(k, n) : \E j \in CallsOf(k2, n2) : j < i

\* The part of C19 the code keeps: the release notes come first, the commit follows
\* beforeCommitChangelog, afterAddToChangelog follows the commit and receives the
\* context beforeCommitChangelog received, and a failing beforeCommitChangelog ends the
\* run with neither.
C19_CommitAfterHook ==
  /\ Precedes("release", "generateReleaseNotes", "hook", "beforeCommitChangelog")
  /\ Precedes("hook", "beforeCommitChangelog", "exec", "git commit")
  /\ Precedes("exec", "git commit", "hook", "afterAddToChangelog")
  /\ \A i \in CallsOf("hook", "afterAddToChangelog") :
       \E j \in CallsOf("hook", "beforeCommitChangelog") : j < i /\ calls[j].a = calls[i].a
  /\ (result = "error" /\ rv.error = "beforeCommitChangelog")
       => ~Called("exec", "git commit") /\ ~Called("hook", "afterAddToChangelog")

\* C19 as stated: in a changelog run that is not a dry run the release notes are
\* generated, then beforeCommitChangelog fires, then the changelog is written to the
\* changelog file and committed, then afterAddToChangelog fires with the same context;
\* nothing is written or committed before beforeCommitChangelog has resolved, and when
\* it fails neither the commit nor afterAddToChangelog happens.
C19_AsStated ==
  /\ C19_CommitAfterHook
  /\ Precedes("hook", "beforeCommitChangelog", "release", "addToChangelog")

----------------------------------------------------------------------------
(* C20 *)

\* No token is available: the repository information gave none and GH_TOKEN is unset
\* (or the string 'undefined')
C20_NoTokenAvailable ==
  /\ Called("env", "GH_TOKEN")
  /\ calls[FirstCall("env", "GH_TOKEN")].a[1] \in {"", "undefined"}

\* C20: with no token available loadConfig fails with the token error, the git client
\* and the release object stay unset, and loadConfig has called neither of them (nor
\* the onCreateRelease hook that follows their creation).
C20_NoTokenNoClient ==
  (Loaded /\ C20_NoTokenAvailable) =>
    /\ ~git /\ ~release
    /\ rv = [defined |-> FALSE, error |-> TokenNotFound]
    /\ LastCallIs("log", "error")
    /\ \A i \in 1..Len(calls) : calls[i].k \notin {"git", "release"}
    /\ ~Called("hook", "onCreateRelease")

C20_Witness ==
  /\ Loaded /\ C20_NoTokenAvailable /\ ~git
  /\ calls[FirstCall("config", "loadConfig")].a[2].known
  /\ rv.error = TokenNotFound

----------------------------------------------------------------------------
(* C21 *)

\* A command that takes a PR number has read the environment and neither the option
\* nor the environment gives one
C21_NoPr ==
  /\ cmd \in {"comment", "prBody", "prCheck", "prStatus"}
  /\ "pr" \in DOMAIN env
  /\ loc.call.pr = 0
  /\ env.pr \in {Absent, ""}

\* The command has failed for want of a PR number
C21_Failed == result = "error" /\ rv = [defined |-> FALSE, error |-> CouldNotDetectPr]

\* C21: with no PR number in the option or the environment, comment, prBody and prCheck
\* fail with the 'could not detect' error before any call and leave hooks,
\* configuration, git client, release object and version bump as they were; prStatus
\* never fails for that reason: without a sha option it asks git for the sha of HEAD
\* and posts the status on it.
C21_NoPrNumber ==
  [][ /\ (C21_NoPr' /\ cmd' # "prStatus")
        => /\ C21_Failed'
           /\ calls' = <<>>
           /\ UNCHANGED <<hooks, config, git, release, versionBump>>
      /\ (cmd' = "prStatus") => ~C21_Failed'
      /\ (C21_NoPr' /\ cmd' = "prStatus" /\ ~Truthy(loc'.call.sha) /\ result' = "ok")
           => /\ calls'[1] = Ev("git", "getSha", <<FALSE>>)
              /\ \A i \in 1..Len(calls') : calls'[i].n # "getPullRequest"
              /\ ~loc'.call.dryRun => calls'[2] = Ev("git", "createStatus", <<FullSha, "">>)
    ]_vars

\* prCheck has failed for want of a PR number, the environment's pr being empty
C21_Witness ==
  /\ C21_NoPr /\ cmd = "prCheck" /\ env.pr = "" /\ C21_Failed /\ git /\ release

----------------------------------------------------------------------------
(* C22 *)

\* The run has been ended by the identity setup of makeChangelog: by the getAuthor hook
\* or by a write of user.email or user.name
C22_EndedBySetup == result = "error" /\ rv.error \in {"getAuthor", "git config"}

\* C22 as stated: no failure to read or to set the git identity, the getAuthor hook's
\* included, ends a changelog run: makeChangelog always goes on past setGitUser.
C22_AsStated == (cmd \in {"changelog", "shipit"}) => ~C22_EndedBySetup

----------------------------------------------------------------------------
(* C23 *)

\* The handler of afterRelease has resolved or rejected
C23_Settled == cmd = "afterRelease" /\ result \in {"ok", "error"}

\* C23 as stated: once the handler of afterRelease has resolved or rejected, none of its
\* announcements makes a further call to the hosting client (comment, label read or
\* add, pull request fetch, lock).
C23_AsStated == [][ C23_Settled => loc'.tasks = loc.tasks ]_vars

----------------------------------------------------------------------------
(* C24 *)

\* The bump kinds of the commits of the range
C24_Kinds == { CommitBump(loc.head[i]) : i \in 1..Len(loc.head) }

----------------------------------------------------------------------------
(* C25 *)

\* C25: within one afterRelease of the released plugin the add-label call is made at
\* most once per target number, also when two announcements of the release have the
\* same target. (Only answered calls are counted; a rejected call adds nothing.)
C25_AsStated ==
  \A t \in Targets :
    Cardinality({ x \in ReleasedCallsOn("addLabelToPr", t) : ReleasedAnswered(x) }) <= 1

----------------------------------------------------------------------------
(* C26 *)

\* The calls of makeRelease that say how the release step went
C26_Logged(text) == { i \in 1..Len(calls) : calls[i].k = "log" /\ calls[i].a # <<>> /\ calls[i].a[1] = text }
C26_DryRuns == C26_Logged("Would have released")
C26_Skipped == C26_Logged("Nothing released to Github.")
C26_NoVersion == C26_Logged("Could not calculate next version from last tag.")
C26_Fired == CallsOf("hook", "afterRelease")
\* The release creations that were answered: a rejected one ends the command
C26_Created ==
  { i \in CallsOf("git", "publish") :
      ~(i = Len(calls) /\ result = "error" /\ rv = [defined |-> FALSE, error |-> "git.publish"]) }

----------------------------------------------------------------------------
(* C27 *)

\* The handler has been given nothing to announce: no new version, a dry run, no
\* commit, or a first commit with a skip-release label
C27_Nothing ==
  \/ loc.newVersion = ""
  \/ loc.dryRun
  \/ Len(loc.commits) = 0
  \/ \E l \in loc.commits[1].labels : l \in SkipReleaseLabels

----------------------------------------------------------------------------
(* C28 *)

\* The handlers of getPreviousVersion that plugins have tapped
C28_PluginTaps ==
  { i \in 1..Len(hooks["getPreviousVersion"]) : hooks["getPreviousVersion"][i] # "None" }
\* How often the built-in handler is tapped
C28_NoneTaps ==
  { i \in 1..Len(hooks["getPreviousVersion"]) : hooks["getPreviousVersion"][i] = "None" }

\* C28: getCurrentVersion returns the last release iff the last release and the answer
\* of getPreviousVersion both parse as semantic versions and the last release is
\* strictly greater, and the answer otherwise; the answer is the built-in prefixed
\* 0.0.0 only when no plugin handler has answered, on every call of a run.
C28_CurrentVersion ==
  [][ (At("getCurrentVersion") /\ rv'.defined /\ stack' = Tail(stack)) =>
        LET answered == C28_PluginTaps # {} /\ repo'.prevVersion # ""
            answer == IF answered THEN repo'.prevVersion
                      ELSE IF repo'.noVersionPrefix THEN "0.0.0" ELSE "v0.0.0"
            last == loc.gcvLast
            newer == Parses(last) /\ Parses(answer) /\ gt(last, answer)
        IN  /\ rv'.value = IF newer THEN last ELSE answer
            /\ (last # answer) => (rv'.value = last <=> newer) ]_vars

\* The second getCurrentVersion of a shipit has returned the answer of a plugin while
\* the built-in handler is tapped twice
C28_Witness ==
  /\ cmd = "shipit"
  /\ Cardinality(CallsOf("hook", "getPreviousVersion")) = 2
  /\ LastCallIs("hook", "getPreviousVersion")
  /\ Cardinality(C28_NoneTaps) = 2 /\ C28_PluginTaps # {}
  /\ "prevVersion" \in DOMAIN repo /\ repo.prevVersion = "v1.1.0"
  /\ rv = [defined |-> TRUE, value |-> "v1.1.0"]

----------------------------------------------------------------------------
(* C29 *)

\* The command run has failed with the 'not initialized' error
C29_Failed == result = "error" /\ rv = [defined |-> FALSE, error |-> NotInitialized]

\* C29: a command that needs the git client or the release object and is run before a
\* loadConfig has succeeded fails with the 'not initialized' error: it fires no hook,
\* calls neither the hosting client nor the release object, and leaves the hooks, the
\* configuration, the client, the release object and the version bump as they were.
C29_NotInitialized ==
  [][ (cmd' \in Commands /\ ~git') =>
        /\ ~release'
        /\ calls' = <<>>
        /\ UNCHANGED <<hooks, config, git, release, versionBump, env, repo>>
        /\ result' \in {"", "error"}
        /\ result' = "error" => C29_Failed'
        /\ stack' = <<>> => C29_Failed'
        /\ stack' # <<>> => Len(stack') <= 2 ]_vars

\* changelog was run after a loadConfig that found no token, and has failed
C29_Witness ==
  /\ cmd = "changelog" /\ config # <<>> /\ ~git /\ ~release
  /\ C29_Failed /\ calls = <<>>

----------------------------------------------------------------------------
(* C30 *)

\* prCheck runs for a known PR and not as a dry run
C30_Checks == cmd = "prCheck" /\ ~opts.dryRun /\ Called("git", "getPullRequest")

\* The labels prCheck has been answered
C30_Labels ==
  { calls[i].a[2] : i \in { j \in CallsOf("git", "getLabels") : Len(calls[j].a) = 2 } }

\* A skip-release label, or a label of the version map that is neither a skip-release
\* label nor 'release'
C30_Counts(l) ==
  \/ l \in BumpLabels.skip
  \/ /\ l \in BumpLabels.major \cup BumpLabels.minor \cup BumpLabels.patch \cup BumpLabels.skip
            \cup {"release"}
     /\ l \notin BumpLabels.skip
     /\ l # "release"

\* C30: prCheck for a known PR and without dry run posts exactly one status; its state is
\* success iff the labels of the PR were fetched and hold a skip-release label or a
\* semver label, and error otherwise, also when the PR or its labels could not be
\* fetched; the command fails only when the status could not be created.
C30_OneStatus ==
  C30_Checks =>
    /\ Cardinality(CallsOf("git", "createStatus")) <= 1
    /\ result # "" =>
         /\ Cardinality(CallsOf("git", "createStatus")) = 1
         /\ \A i \in CallsOf("git", "createStatus") :
              /\ calls[i].a[2] \in {"success", "error"}
              /\ calls[i].a[2] = "success" <=>
                   \E labels \in C30_Labels : \E l \in labels : C30_Counts(l)
              /\ result = "error" <=>
                   /\ i = Len(calls)
                   /\ rv = [defined |-> FALSE, error |-> "Failed to post status to Pull Request"]
              /\ result = "ok" <=> (i < Len(calls) /\ LastCallIs("log", "success"))
         /\ result \in {"ok", "error"}

\* The labels of the PR could not be fetched: an error status was posted and the
\* command has ended well
C30_Witness ==
  /\ C30_Checks /\ result = "ok"
  /\ C30_Labels = {}
  /\ \E i \in CallsOf("git", "createStatus") : calls[i].a[2] = "error"

====
